---- MODULE Spec2Model ----
(***************************************************************************)
(* sf-seeder: plan generation (seeder:plan:generate), plan execution       *)
(* (seeder:plan:run) and data migration (seeder:data:migrate).             *)
(*                                                                         *)
(* A JavaScript string is a sequence of lexical tokens ("@{", "}", ".",    *)
(* "#{counter}", "#{faker.", names and literal pieces); a FieldValue is a  *)
(* record [t, s] with t the JavaScript type and s the token sequence.      *)
(* A Map is a sequence of entries in insertion order, because the code     *)
(* iterates Maps and delete keeps the order of the remaining entries.      *)
(***************************************************************************)
EXTENDS Integers, Sequences, FiniteSets, TLC

\* ------------------------------------------------------------------ bounds
\* Largest number of reference fields the describe call yields for one object.
MaxFields == 2
\* Largest number of reference fields in one generated plan.
MaxRefs == 4
\* Largest number of steps in a seeding plan file.
MaxSteps == 3
\* Largest record count of a seeding step.
MaxCount == 2

\* The object types named on --objects, in the order given.
ObjNames == <<"A", "B", "C">>
Objects == {ObjNames[i] : i \in 1..Len(ObjNames)}
FieldNames == <<"f1", "f2", "f3", "f4">>

\* --count default of seeder:plan:generate.
DefaultCount == 3

VARIABLES
    \* seeder:plan:generate
    gpc,               \* position in run / getSmartOrderedPlan
    originalPlan,      \* SeedingStep[] built by run, mutated by the removal loop
    sObjectDepGraph,   \* Map sobject -> Map field -> referenced object
    depSobjectGraph,   \* Map referenced object -> Set of dependent sobjects
    groupMap,          \* cycle groups still to be prompted, in Map order
    selectedRemovals,  \* Set<string> of selected choices, in insertion order
    removeAt,          \* index of the next entry of cycleToRemove (generate.ts:114)
    sortedPlan,        \* the plan returned by getSmartOrderedPlan
    builtPlan,         \* the plan as handed to getSmartOrderedPlan (history)
    \* seeder:plan:run
    rpc,               \* position in run / processStep
    planList,          \* SeedingStep[] parsed from the plan file
    isDryRun,          \* --dryrun
    isDryRunSave,      \* --save names a file (flags['save'] is truthy)
    summaryOnly,       \* --summaryonly
    dryRunOutputTo,    \* where run wrote the dry-run records: "file", "log", "none"
    stepAt,            \* index of the step the for loop of run is at
    referenceMap,      \* Map sobject -> SuccessResult[] (the identifier table)
    allDryRunOutput,   \* Map sobject -> records built in a dry run
    records,           \* records of the processStep call in progress (<<>> outside)
    warnings,          \* this.warn calls of the step at stepAt, in order
    results,           \* results of the conn.bulk.load call that just returned
    status,            \* per step (history): what became of it, and whether the
                       \* load reported at least one of its records a success
    errorMsg,          \* the message of this.error, <<>> when none was raised
    \* seeder:data:migrate
    mpc,               \* position in runMigrationPlan
    orgs,              \* what the two orgs answer to describe (fixed for a run)
    mplan,             \* plan.objects parsed from the plan file
    entryAt,           \* index of the entry the for loop is at
    describeCache,     \* this.describeCache: sobject -> DescribeSObjectResult
    idMapBySObject,    \* sobject -> Map old id -> new id
    mwork,             \* locals of the entry in progress
    mlog,              \* this.log / this.error lines of the entry in progress
    mstatus,           \* per entry (history): what became of it
    submitted,         \* calls made on targetConn, in order (history)
    \* pure functions applied to drawn inputs
    pcall,             \* the function and its arguments
    pret               \* its result, NoRet before the call

gvars == <<gpc, originalPlan, sObjectDepGraph, depSobjectGraph, groupMap,
           selectedRemovals, removeAt, sortedPlan, builtPlan>>

rvars == <<rpc, planList, isDryRun, isDryRunSave, summaryOnly, dryRunOutputTo, stepAt,
           referenceMap, allDryRunOutput, records, warnings, results, status, errorMsg>>

mvars == <<mpc, orgs, mplan, entryAt, describeCache, idMapBySObject, mwork, mlog,
           mstatus, submitted>>

pvars == <<pcall, pret>>

vars == <<gvars, rvars, mvars, pvars>>

\* The migrate command and the pure-function harness when another command runs.
NoRet == [fn |-> "none"]

MigIdle ==
    /\ mpc = "idle"
    /\ orgs = <<>>
    /\ mplan = <<>>
    /\ entryAt = 1
    /\ describeCache = <<>>
    /\ idMapBySObject = <<>>
    /\ mwork = <<>>
    /\ mlog = <<>>
    /\ mstatus = <<>>
    /\ submitted = <<>>

PureIdle == pcall = NoRet /\ pret = NoRet

\* ------------------------------------------------------------ strings
Str(s) == [t |-> "string", s |-> s]
Num(n) == [t |-> "number", s |-> <<n>>]
Null == [t |-> "null", s |-> <<>>]

RefTok(o) == Str(<<"@{", o, ".", "Id", "}">>)
PlainLit == Str(<<"Acme">>)

\* String.prototype.startsWith / endsWith for a one-token marker.
StartsWith(s, tok) == Len(s) >= 1 /\ s[1] = tok
EndsWith(s, tok) == Len(s) >= 1 /\ s[Len(s)] = tok

\* value.slice(2, -1): drops the two characters "@{" and the last character.
Slice2(s) == IF Len(s) >= 2 THEN SubSeq(s, 2, Len(s) - 1) ELSE <<>>

\* .split('.')[0]: the text before the first dot ("" when there is none).
SplitDotFirst(m) == IF m = <<>> \/ m[1] = "." THEN "" ELSE m[1]

\* The test of generate.ts:100 and the target of generate.ts:101.
IsRefToken(v) == v.t = "string" /\ StartsWith(v.s, "@{") /\ EndsWith(v.s, "}")
RefObjOf(v) == SplitDotFirst(Slice2(v.s))

\* ------------------------------------------------------------ sequences
Range(q) == {q[i] : i \in 1..Len(q)}

RECURSIVE SelectSeq2(_, _)
\* q without the entries whose key field k equals name (Map.delete).
SelectSeq2(q, name) ==
    IF q = <<>> THEN <<>>
    ELSE IF Head(q).field = name THEN SelectSeq2(Tail(q), name)
    ELSE <<Head(q)>> \o SelectSeq2(Tail(q), name)

IndexOf(q, x) == IF \E i \in 1..Len(q) : q[i] = x
                 THEN CHOOSE i \in 1..Len(q) : q[i] = x /\ \A j \in 1..(i - 1) : q[j] # x
                 ELSE 0

\* ------------------------------------------------- seeder:plan:generate
\* The field values getFakerForField can give a field: a reference to one of
\* the objects, or a value that is no reference token.
GenValues == {RefTok(o) : o \in Objects} \cup {PlainLit}

\* The fields of one described object: an optional field holding a plain
\* value, then up to MaxFields fields holding reference tokens.
MkFields(withName, refs) ==
    (IF withName THEN <<[name |-> "Name", value |-> PlainLit]>> ELSE <<>>)
    \o [i \in 1..Len(refs) |-> [name |-> FieldNames[i], value |-> RefTok(refs[i])]]

FieldSeqs ==
    {MkFields(w, r) : <<w, r>> \in BOOLEAN \X UNION {[1..n -> Objects] : n \in 0..MaxFields}}

NumRefs(fields) == Cardinality({i \in 1..Len(fields) : IsRefToken(fields[i].value)})

RECURSIVE PlanRefs(_)
PlanRefs(plan) == IF plan = <<>> THEN 0
                  ELSE NumRefs(Head(plan).fields) + PlanRefs(Tail(plan))

\* Map.get on a Map kept as a sequence of [key, deps] entries.
DepsOf(graph, node) ==
    IF \E i \in 1..Len(graph) : graph[i].key = node
    THEN (CHOOSE e \in Range(graph) : e.key = node).deps
    ELSE <<>>

HasKey(graph, node) == \E i \in 1..Len(graph) : graph[i].key = node

\* generate.ts:98-108 for one step: the step's Map field -> refObj.
StepDeps(step) ==
    LET idx == {i \in 1..Len(step.fields) :
                   IsRefToken(step.fields[i].value) /\ RefObjOf(step.fields[i].value) # ""}
        F[i \in 0..Len(step.fields)] ==
            IF i = 0 THEN <<>>
            ELSE IF i \in idx
                 THEN F[i - 1] \o <<[field |-> step.fields[i].name,
                                     ref |-> RefObjOf(step.fields[i].value)]>>
                 ELSE F[i - 1]
    IN F[Len(step.fields)]

\* generate.ts:97-110: the dependency map, steps without deps left out.
BuildDepGraph(plan) ==
    LET F[i \in 0..Len(plan)] ==
            IF i = 0 THEN <<>>
            ELSE IF StepDeps(plan[i]) # <<>>
                 THEN F[i - 1] \o <<[key |-> plan[i].sobject, deps |-> StepDeps(plan[i])]>>
                 ELSE F[i - 1]
    IN F[Len(plan)]

\* generate.ts:104-105: the dependent map, refObj -> set of sobjects.
BuildDependents(plan) ==
    LET targets == {d.ref : d \in UNION {Range(StepDeps(plan[i])) : i \in 1..Len(plan)}}
    IN [r \in targets |->
           {plan[i].sobject : i \in {j \in 1..Len(plan) :
                                        \E d \in Range(StepDeps(plan[j])) : d.ref = r}}]

\* [from, to].sort().join('__') of generate.ts:186: one key for A->B and B->A.
PairKey(from, to) ==
    IF IndexOf(ObjNames, from) <= IndexOf(ObjNames, to)
    THEN <<from, "__", to>> ELSE <<to, "__", from>>

\* generate.ts:166-180: the edges sObject -field-> refObj for which refObj is
\* itself a dependent of sObject, in Map iteration order.
CyclicDependancy(graph, dependents) ==
    LET EdgesOf(e) ==
            LET G[i \in 0..Len(e.deps)] ==
                    IF i = 0 THEN <<>>
                    ELSE IF /\ e.deps[i].ref # ""
                            /\ e.deps[i].ref \in DOMAIN dependents
                            /\ e.key \in DOMAIN dependents
                            /\ e.deps[i].ref \in dependents[e.key]
                         THEN G[i - 1] \o <<[from |-> e.key, field |-> e.deps[i].field,
                                             to |-> e.deps[i].ref]>>
                         ELSE G[i - 1]
            IN G[Len(e.deps)]
        F[i \in 0..Len(graph)] ==
            IF i = 0 THEN <<>> ELSE F[i - 1] \o EdgesOf(graph[i])
    IN F[Len(graph)]

\* generate.ts:182-192: groupMap, key -> relations, keys in first-seen order.
GroupCycles(cyc) ==
    LET Add(groups, rel) ==
            LET k == PairKey(rel.from, rel.to)
            IN IF \E i \in 1..Len(groups) : groups[i].key = k
               THEN [i \in 1..Len(groups) |->
                        IF groups[i].key = k
                        THEN [groups[i] EXCEPT !.relations = @ \o <<rel>>]
                        ELSE groups[i]]
               ELSE groups \o <<[key |-> k, relations |-> <<rel>>]>>
        F[i \in 0..Len(cyc)] ==
            IF i = 0 THEN <<>> ELSE Add(F[i - 1], cyc[i])
    IN F[Len(cyc)]

\* generate.ts:201: the choice text shown for one relation.
ChoiceText(rel) == <<rel.from, " -> ", rel.field, " -> ", rel.to, " -> ", "Lookup">>

\* generate.ts:115: cycle.trim().split('->') with each part trimmed.
ParseChoice(c) == [from |-> c[1], field |-> c[3], to |-> c[5]]

\* Set.add on a Set kept in insertion order.
SetAdd(q, x) == IF x \in Range(q) THEN q ELSE Append(q, x)

\* Mutant of GraphDeleteField: every edge of `from` is deleted with the field.
GraphDeleteKey(graph, from, field) ==
    [i \in 1..Len(graph) |->
        IF graph[i].key = from
        THEN [graph[i] EXCEPT !.deps = <<>>]
        ELSE graph[i]]

\* generate.ts:116: the field's entry leaves the dependency map of `from`.
GraphDeleteField(graph, from, field) ==
    [i \in 1..Len(graph) |->
        IF graph[i].key = from
        THEN [graph[i] EXCEPT !.deps = SelectSeq2(@, field)]
        ELSE graph[i]]

\* generate.ts:117-118: `from` leaves the dependents of `to`; an empty set is dropped.
DependentsDelete(dependents, from, to) ==
    IF to \notin DOMAIN dependents THEN dependents
    ELSE IF dependents[to] \ {from} = {}
         THEN [r \in DOMAIN dependents \ {to} |-> dependents[r]]
         ELSE [dependents EXCEPT ![to] = @ \ {from}]

\* generate.ts:120-121: delete plan.fields[field] on the first step named `from`.
PlanDeleteField(plan, from, field) ==
    LET at == IF \E i \in 1..Len(plan) : plan[i].sobject = from
              THEN CHOOSE i \in 1..Len(plan) :
                       plan[i].sobject = from /\ \A j \in 1..(i - 1) : plan[j].sobject # from
              ELSE 0
    IN [i \in 1..Len(plan) |->
           IF i = at
           THEN [plan[i] EXCEPT !.fields = SelectSeq(@, LAMBDA f : f.name # field)]
           ELSE plan[i]]

\* generate.ts:124-126.
AssignSaveRefs(plan, dependents) ==
    [i \in 1..Len(plan) |->
        [plan[i] EXCEPT !.saveRefs = (plan[i].sobject \in DOMAIN dependents)]]

RECURSIVE visit(_, _, _), visitAll(_, _, _)
\* Mutant of visit: a node already visited is traversed again.
visitAgain(graph, node, st) ==
    IF st.fault THEN st
    ELSE IF node \in st.tempMark THEN [st EXCEPT !.fault = TRUE]
    ELSE LET st1 == [st EXCEPT !.tempMark = @ \cup {node}]
             deps == DepsOf(graph, node)
             st2 == visitAll(graph, [i \in 1..Len(deps) |-> deps[i].ref], st1)
         IN IF st2.fault THEN st2
            ELSE [st2 EXCEPT !.tempMark = @ \ {node},
                             !.visited = @ \cup {node},
                             !.sorted = Append(@, node)]

\* Mutant of visit: the node is pushed before its dependencies are visited.
visitPreOrder(graph, node, st) ==
    IF st.fault THEN st
    ELSE IF node \in st.tempMark THEN [st EXCEPT !.fault = TRUE]
    ELSE IF node \in st.visited THEN st
    ELSE LET st1 == [st EXCEPT !.tempMark = @ \cup {node}, !.sorted = Append(@, node)]
             deps == DepsOf(graph, node)
             st2 == visitAll(graph, [i \in 1..Len(deps) |-> deps[i].ref], st1)
         IN IF st2.fault THEN st2
            ELSE [st2 EXCEPT !.tempMark = @ \ {node}, !.visited = @ \cup {node}]

\* Mutant of visit: a temporarily marked node is skipped instead of faulting.
visitNoFault(graph, node, st) ==
    IF node \in st.tempMark \/ node \in st.visited THEN st
    ELSE LET st1 == [st EXCEPT !.tempMark = @ \cup {node}]
             deps == DepsOf(graph, node)
             st2 == visitAll(graph, [i \in 1..Len(deps) |-> deps[i].ref], st1)
         IN [st2 EXCEPT !.tempMark = @ \ {node},
                        !.visited = @ \cup {node},
                        !.sorted = Append(@, node)]

\* generate.ts:132-146.  st = [sorted, visited, tempMark, fault]; a throw sets
\* fault and leaves the rest of the traversal undone.
visit(graph, node, st) ==
    IF st.fault THEN st
    ELSE IF node \in st.tempMark THEN [st EXCEPT !.fault = TRUE]
    ELSE IF node \in st.visited THEN st
    ELSE LET st1 == [st EXCEPT !.tempMark = @ \cup {node}]
             deps == DepsOf(graph, node)
             st2 == visitAll(graph, [i \in 1..Len(deps) |-> deps[i].ref], st1)
         IN IF st2.fault THEN st2
            ELSE [st2 EXCEPT !.tempMark = @ \ {node},
                             !.visited = @ \cup {node},
                             !.sorted = Append(@, node)]

visitAll(graph, nodes, st) ==
    IF nodes = <<>> THEN st
    ELSE visitAll(graph, Tail(nodes), visit(graph, Head(nodes), st))

\* generate.ts:128-150: the traversal from every key of the dependency map.
SortSObjects(graph) ==
    visitAll(graph, [i \in 1..Len(graph) |-> graph[i].key],
             [sorted |-> <<>>, visited |-> {}, tempMark |-> {}, fault |-> FALSE])

\* generate.ts:152-154: names mapped to their step, names without a step dropped.
MapToSteps(names, plan) ==
    LET F[i \in 0..Len(names)] ==
            IF i = 0 THEN <<>>
            ELSE IF \E j \in 1..Len(plan) : plan[j].sobject = names[i]
                 THEN F[i - 1] \o <<plan[CHOOSE j \in 1..Len(plan) :
                                        plan[j].sobject = names[i]
                                        /\ \A k \in 1..(j - 1) : plan[k].sobject # names[i]]>>
                 ELSE F[i - 1]
    IN F[Len(names)]

\* The plan:run command is not running.
RunIdle ==
    /\ rpc = "idle"
    /\ planList = <<>>
    /\ isDryRun = FALSE
    /\ isDryRunSave = FALSE
    /\ summaryOnly = FALSE
    /\ dryRunOutputTo = "none"
    /\ stepAt = 1
    /\ referenceMap = <<>>
    /\ allDryRunOutput = <<>>
    /\ records = <<>>
    /\ warnings = <<>>
    /\ results = <<>>
    /\ status = <<>>
    /\ errorMsg = <<>>

\* ---- actions of seeder:plan:generate
GenInit ==
    /\ gpc = "describe"
    /\ originalPlan = <<>>
    /\ sObjectDepGraph = <<>>
    /\ depSobjectGraph = <<>>
    /\ groupMap = <<>>
    /\ selectedRemovals = <<>>
    /\ removeAt = 1
    /\ sortedPlan = <<>>
    /\ builtPlan = <<>>
    /\ RunIdle
    /\ MigIdle
    /\ PureIdle

\* generate.ts:60-84: one object is described and its step pushed.
Describe ==
    /\ gpc = "describe"
    /\ Len(originalPlan) < Len(ObjNames)
    /\ \E fields \in FieldSeqs :
          /\ PlanRefs(originalPlan) + NumRefs(fields) <= MaxRefs
          /\ originalPlan' = Append(originalPlan,
                 [sobject |-> ObjNames[Len(originalPlan) + 1], count |-> DefaultCount,
                  saveRefs |-> FALSE, fields |-> fields])
    /\ UNCHANGED <<gpc, sObjectDepGraph, depSobjectGraph, groupMap, selectedRemovals,
                   removeAt, sortedPlan, builtPlan>>
    /\ UNCHANGED <<rvars, mvars, pvars>>

\* generate.ts:86, 94-110 and 163-192: the graphs and the cycle groups.
BuildGraph ==
    /\ gpc = "describe"
    /\ Len(originalPlan) >= 1
    /\ LET graph == BuildDepGraph(originalPlan)
           dependents == BuildDependents(originalPlan)
           groups == GroupCycles(CyclicDependancy(graph, dependents))
       IN /\ sObjectDepGraph' = graph
          /\ depSobjectGraph' = dependents
          /\ groupMap' = groups
          /\ gpc' = IF groups = <<>> THEN "remove" ELSE "prompt"
    /\ builtPlan' = originalPlan
    /\ UNCHANGED <<originalPlan, selectedRemovals, removeAt, sortedPlan>>
    /\ UNCHANGED <<rvars, mvars, pvars>>

\* generate.ts:196-215: the prompt of the next group answers with one choice.
Prompt ==
    /\ gpc = "prompt"
    /\ groupMap # <<>>
    /\ \E rel \in Range(Head(groupMap).relations) :
          selectedRemovals' = SetAdd(selectedRemovals, ChoiceText(rel))
    /\ groupMap' = Tail(groupMap)
    /\ gpc' = IF Tail(groupMap) = <<>> THEN "remove" ELSE "prompt"
    /\ UNCHANGED <<originalPlan, sObjectDepGraph, depSobjectGraph, removeAt,
                   sortedPlan, builtPlan>>
    /\ UNCHANGED <<rvars, mvars, pvars>>

\* generate.ts:114-122: one iteration of the removal loop.
RemoveCycle ==
    /\ gpc = "remove"
    /\ removeAt <= Len(selectedRemovals)
    /\ LET c == ParseChoice(selectedRemovals[removeAt])
       IN /\ sObjectDepGraph' = GraphDeleteField(sObjectDepGraph, c.from, c.field)
          /\ depSobjectGraph' = DependentsDelete(depSobjectGraph, c.from, c.to)
          /\ originalPlan' = PlanDeleteField(originalPlan, c.from, c.field)
    /\ removeAt' = removeAt + 1
    /\ UNCHANGED <<gpc, groupMap, selectedRemovals, sortedPlan, builtPlan>>
    /\ UNCHANGED <<rvars, mvars, pvars>>

\* generate.ts:124-156: saveRefs, the traversal and the returned plan.
OrderPlan ==
    /\ gpc = "remove"
    /\ removeAt > Len(selectedRemovals)
    /\ LET plan == AssignSaveRefs(originalPlan, depSobjectGraph)
           st == SortSObjects(sObjectDepGraph)
       IN /\ originalPlan' = plan
          /\ gpc' = IF st.fault THEN "fault" ELSE "done"
          /\ sortedPlan' = IF st.fault THEN <<>> ELSE MapToSteps(st.sorted, plan)
    /\ UNCHANGED <<sObjectDepGraph, depSobjectGraph, groupMap, selectedRemovals,
                   removeAt, builtPlan>>
    /\ UNCHANGED <<rvars, mvars, pvars>>

GenNext == Describe \/ BuildGraph \/ Prompt \/ RemoveCycle \/ OrderPlan

SpecGen == GenInit /\ [][GenNext]_vars

\* generate.ts:124: the traversal starts when the removal loop has ended.  It
\* always changes gpc, so this is the condition under which a step of
\* OrderPlan is possible.
OrderPlanEnabled == gpc = "remove" /\ removeAt > Len(selectedRemovals)

\* The removal loop and the traversal run without waiting for anything: once
\* the prompts are answered each of them goes on when it can.  The describe
\* calls and the prompts wait for the org and the user and get no fairness.
\* The last conjunct is WF_vars(OrderPlan) with its enabling condition
\* written out.
SpecGenFair ==
    /\ SpecGen
    /\ WF_vars(RemoveCycle)
    /\ ([]<>~OrderPlanEnabled \/ []<><<OrderPlan>>_vars)

\* ------------------------------------------------------ seeder:plan:run
\* The synthetic-data library the expressions are resolved in: the kind of
\* the member a dotted path names (anything else is undefined).
FakerKind(path) ==
    CASE path = <<"person">> -> "module"
      [] path = <<"person", "lastName">> -> "function"
      [] path = <<"helpers">> -> "module"
      [] path = <<"helpers", "fake">> -> "throws"
      [] OTHER -> "undefined"

\* expression.split('.'): the names between the dots.
SplitDots(expr) ==
    IF expr = <<>> THEN <<"">>
    ELSE LET F[i \in 0..Len(expr)] ==
                 IF i = 0 THEN <<>>
                 ELSE IF expr[i] = "." THEN F[i - 1] ELSE Append(F[i - 1], expr[i])
         IN F[Len(expr)]

FakeValue == Str(<<"fake">>)

\* faker.ts:10-42.  The result is [value, warns]; value Null is JavaScript null.
resolveFakerExpression(value) ==
    IF ~(StartsWith(value.s, "#{faker.") /\ EndsWith(value.s, "}"))
    THEN [value |-> Null, warns |-> <<>>]
    ELSE LET expression == Slice2(value.s)
             parts == SplitDots(expression)
             \* walk[i]: "ok" while every segment so far resolved to a member,
             \* "value" once a function returned, "undefined", "throws"
             walk[i \in 0..Len(parts)] ==
                 IF i = 0 THEN "ok"
                 ELSE IF walk[i - 1] \in {"undefined", "throws"} THEN walk[i - 1]
                 ELSE IF walk[i - 1] = "value" THEN "undefined"
                 ELSE CASE FakerKind(SubSeq(parts, 1, i)) = "module" -> "ok"
                        [] FakerKind(SubSeq(parts, 1, i)) = "function" -> "value"
                        [] FakerKind(SubSeq(parts, 1, i)) = "throws" -> "throws"
                        [] OTHER -> "undefined"
             end == walk[Len(parts)]
         IN CASE end = "undefined" ->
                   [value |-> Null,
                    warns |-> <<<<"Invalid faker path: ">> \o expression>>]
              [] end = "throws" -> [value |-> Null, warns |-> <<>>]
              [] end = "value" -> [value |-> FakeValue, warns |-> <<>>]
              [] OTHER -> [value |-> Str(<<"[object Object]">>), warns |-> <<>>]

\* Mutant of ReplaceCounter: the zero-based index is substituted.
ReplaceCounterZeroBased(str, counter) ==
    [i \in 1..Len(str) |-> IF str[i] = "#{counter}" THEN ToString(counter) ELSE str[i]]

\* value.replace(/#\{counter\}/g, (counter + 1).toString()) of run.ts:167.
ReplaceCounter(str, counter) ==
    [i \in 1..Len(str) |-> IF str[i] = "#{counter}" THEN ToString(counter + 1) ELSE str[i]]

\* referenceMap.get(refKey): <<>> stands for undefined as well as for [].
TableGet(table, key) == IF key \in DOMAIN table THEN table[key] ELSE <<>>

\* Mutant of processValue: an unresolvable reference token is returned as it
\* is, without a warning, instead of null.
processValueKeepToken(value, counter, dry, table, rnd) ==
    IF value.t # "string" THEN [value |-> value, warns |-> <<>>]
    ELSE LET faked == resolveFakerExpression(value)
             resolved == ReplaceCounter(value.s, counter)
             refList == TableGet(table, SplitDotFirst(Slice2(resolved)))
         IN IF faked.value # Null THEN faked
            ELSE IF ~dry /\ StartsWith(resolved, "@{") /\ EndsWith(resolved, "}")
                    /\ Len(refList) > 0
            THEN [value |-> refList[((rnd - 1) % Len(refList)) + 1].id, warns |-> faked.warns]
            ELSE [value |-> Str(resolved), warns |-> faked.warns]

\* Mutant of processValue: an unresolvable reference gives null silently.
processValueSilentNull(value, counter, dry, table, rnd) ==
    IF value.t # "string" THEN [value |-> value, warns |-> <<>>]
    ELSE LET faked == resolveFakerExpression(value)
             resolved == ReplaceCounter(value.s, counter)
             refList == TableGet(table, SplitDotFirst(Slice2(resolved)))
         IN IF faked.value # Null THEN faked
            ELSE IF ~dry /\ StartsWith(resolved, "@{") /\ EndsWith(resolved, "}")
            THEN IF Len(refList) > 0
                 THEN [value |-> refList[((rnd - 1) % Len(refList)) + 1].id,
                       warns |-> faked.warns]
                 ELSE [value |-> Null, warns |-> faked.warns]
            ELSE [value |-> Str(resolved), warns |-> faked.warns]

\* Mutant of processValue: the table is consulted as soon as the substituted
\* string starts with '@{', whatever its end.
processValuePrefixOnly(value, counter, dry, table, rnd) ==
    IF value.t # "string" THEN [value |-> value, warns |-> <<>>]
    ELSE LET faked == resolveFakerExpression(value)
             resolved == ReplaceCounter(value.s, counter)
         IN IF faked.value # Null THEN faked
            ELSE IF ~dry /\ StartsWith(resolved, "@{")
            THEN LET refKey == SplitDotFirst(Slice2(resolved))
                     refList == TableGet(table, refKey)
                 IN IF Len(refList) > 0
                    THEN [value |-> refList[((rnd - 1) % Len(refList)) + 1].id,
                          warns |-> faked.warns]
                    ELSE [value |-> Null,
                          warns |-> Append(faked.warns,
                                           <<"Reference not found for key: ", refKey>>)]
            ELSE [value |-> Str(resolved), warns |-> faked.warns]

\* run.ts:155-184.  rnd is the draw of Math.random scaled to an index, taken
\* modulo the list length; the result is [value, warns].
processValue(value, counter, dry, table, rnd) ==
    IF value.t # "string" THEN [value |-> value, warns |-> <<>>]
    ELSE LET faked == resolveFakerExpression(value)
             resolved == ReplaceCounter(value.s, counter)
         IN IF faked.value # Null THEN faked
            ELSE IF ~dry /\ StartsWith(resolved, "@{") /\ EndsWith(resolved, "}")
            THEN LET refKey == SplitDotFirst(Slice2(resolved))
                     refList == TableGet(table, refKey)
                 IN IF Len(refList) > 0
                    THEN [value |-> refList[((rnd - 1) % Len(refList)) + 1].id,
                          warns |-> faked.warns]
                    ELSE [value |-> Null,
                          warns |-> Append(faked.warns,
                                           <<"Reference not found for key: ", refKey>>)]
            ELSE [value |-> Str(resolved), warns |-> faked.warns]

\* Mutant of isSuccess: the success flag alone decides.
isSuccessFlagOnly(result) == result.success = TRUE

\* run.ts:19-21.
isSuccess(result) == result.success = TRUE /\ result.id.t = "string"

\* run.ts:134-135: results.filter(isSuccess), results.filter((r) => !isSuccess(r)).
NotSuccess(result) == ~isSuccess(result)
Successes(q) == SelectSeq(q, isSuccess)
Failures(q) == SelectSeq(q, NotSuccess)

\* run.ts:112-118: the records of one step and the warnings of building them;
\* rnd[i][k] is the random draw for field k of record i.
BuildRecordsOf(step, dry, table, rnd) ==
    LET PV(i, k) == processValue(step.fields[k].value, i - 1, dry, table, rnd[i][k])
        Rec(i) == [k \in 1..Len(step.fields) |->
                      [name |-> step.fields[k].name, value |-> PV(i, k).value]]
        Tag(i, k) == [j \in 1..Len(PV(i, k).warns) |->
                         [rec |-> i, field |-> step.fields[k].name, msg |-> PV(i, k).warns[j]]]
        WRec[k \in 0..Len(step.fields)] ==
            [i \in 1..step.count |-> IF k = 0 THEN <<>> ELSE WRec[k - 1][i] \o Tag(i, k)]
        WAll[i \in 0..step.count] ==
            IF i = 0 THEN <<>> ELSE WAll[i - 1] \o WRec[Len(step.fields)][i]
    IN [records |-> [i \in 1..step.count |-> Rec(i)], warns |-> WAll[step.count]]

\* Largest list of the identifier table (1 when it is empty).
MaxList(table) ==
    LET lens == {Len(table[k]) : k \in DOMAIN table} \cup {1}
    IN CHOOSE n \in lens : \A m \in lens : m <= n

\* The random draws that can matter for a step: one per field and record, free
\* only for a field holding a reference token.
Draws(step, table) ==
    LET one == {f \in [1..Len(step.fields) -> 1..MaxList(table)] :
                   \A k \in 1..Len(step.fields) :
                       ~StartsWith(step.fields[k].value.s, "@{") => f[k] = 1}
    IN [1..step.count -> one]

\* Identifier the platform gives record i of the load of plan step p.
NewId(p, i) == Str(<<"id", ToString(p), ToString(i)>>)

\* The per-record results conn.bulk.load can return for n records of step p:
\* one result per record, in order, each a success with a fresh identifier or
\* a failure with an error.
OkResult(p, i) == [success |-> TRUE, id |-> NewId(p, i), errors |-> <<>>]
FailResult == [success |-> FALSE, id |-> Null, errors |-> <<"REQUIRED_FIELD_MISSING">>]
LoadResults(p, n) ==
    {[i \in 1..n |-> IF ok[i] THEN OkResult(p, i) ELSE FailResult] : ok \in [1..n -> BOOLEAN]}

\* Mutant of MapSet: an existing entry is kept.
MapSetIfAbsent(m, key, val) ==
    [k \in DOMAIN m \cup {key} |-> IF k \in DOMAIN m THEN m[k] ELSE val]

\* Map.set on a Map kept as a function.
MapSet(m, key, val) == [k \in DOMAIN m \cup {key} |-> IF k = key THEN val ELSE m[k]]

\* ---- the plan files of the model
CounterLit == Str(<<"User-", "#{counter}">>)

ParentStep(o, save, n) ==
    [sobject |-> o, count |-> n, saveRefs |-> save,
     fields |-> <<[name |-> "Name", value |-> CounterLit]>>]

ChildStep(o, ref, n) ==
    [sobject |-> o, count |-> n, saveRefs |-> FALSE,
     fields |-> <<[name |-> "LastName", value |-> CounterLit],
                  [name |-> "AccountId", value |-> RefTok(ref)]>>]

\* Steps for the referenced type "A" (with and without saveRefs) and steps for
\* "B" that reference it, each with no record or with MaxCount records.
RunSteps ==
    {ParentStep("A", save, n) : <<save, n>> \in BOOLEAN \X {0, MaxCount}}
    \cup {ChildStep("B", "A", n) : n \in {0, MaxCount}}

RunPlans == UNION {[1..n -> RunSteps] : n \in 1..MaxSteps}

\* ---- actions of seeder:plan:run
GenIdle ==
    /\ gpc = "idle"
    /\ originalPlan = <<>>
    /\ sObjectDepGraph = <<>>
    /\ depSobjectGraph = <<>>
    /\ groupMap = <<>>
    /\ selectedRemovals = <<>>
    /\ removeAt = 1
    /\ sortedPlan = <<>>
    /\ builtPlan = <<>>

\* run.ts:51-75: flags parsed, plan file read, empty tables.  summaryonly and
\* save are read only under isDryRun (run.ts:78, 87-89), so they are
\* enumerated for dry runs and fixed at their defaults otherwise.
RunInit ==
    /\ rpc = "loop"
    /\ planList \in RunPlans
    /\ isDryRun \in BOOLEAN
    /\ summaryOnly \in (IF isDryRun THEN BOOLEAN ELSE {FALSE})
    /\ isDryRunSave \in (IF isDryRun THEN BOOLEAN ELSE {FALSE})
    /\ dryRunOutputTo = "none"
    /\ stepAt = 1
    /\ referenceMap = <<>>
    /\ allDryRunOutput = <<>>
    /\ records = <<>>
    /\ warnings = <<>>
    /\ results = <<>>
    /\ status = [p \in 1..Len(planList) |-> [state |-> "pending", ok |-> FALSE]]
    /\ errorMsg = <<>>
    /\ GenIdle
    /\ MigIdle
    /\ PureIdle

\* run.ts:78-80: a dry run with --summaryonly only logs the step.
SummaryStep ==
    /\ rpc = "loop"
    /\ stepAt <= Len(planList)
    /\ isDryRun /\ summaryOnly
    /\ stepAt' = stepAt + 1
    /\ status' = [status EXCEPT ![stepAt].state = "summary"]
    /\ records' = <<>>
    /\ warnings' = <<>>
    /\ results' = <<>>
    /\ UNCHANGED <<rpc, planList, isDryRun, isDryRunSave, summaryOnly, dryRunOutputTo,
                   referenceMap, allDryRunOutput,
                   errorMsg>>
    /\ UNCHANGED <<gvars, mvars, pvars>>

\* Mutant of BuildRecords: the records of a dry run are loaded too.
BuildRecordsIgnoresDry ==
    /\ rpc = "loop"
    /\ stepAt <= Len(planList)
    /\ ~(isDryRun /\ summaryOnly)
    /\ LET step == planList[stepAt]
       IN \E rnd \in Draws(step, referenceMap) :
             LET built == BuildRecordsOf(step, isDryRun, referenceMap, rnd)
             IN /\ records' = built.records
                /\ IF Len(built.records) = 0
                   THEN /\ warnings' = Append(built.warns,
                               [rec |-> 0, field |-> "",
                                msg |-> <<"No records to create for ", step.sobject>>])
                        /\ stepAt' = stepAt + 1
                        /\ status' = [status EXCEPT ![stepAt].state = "skipped"]
                        /\ UNCHANGED <<rpc, allDryRunOutput>>
                   ELSE /\ warnings' = built.warns
                        /\ rpc' = "load"
                        /\ UNCHANGED <<stepAt, allDryRunOutput, status>>
    /\ results' = <<>>
    /\ UNCHANGED <<planList, isDryRun, isDryRunSave, summaryOnly, dryRunOutputTo,
                   referenceMap, errorMsg>>
    /\ UNCHANGED <<gvars, mvars, pvars>>

\* run.ts:83 and 109-131: processStep up to the call of conn.bulk.load.
BuildRecords ==
    /\ rpc = "loop"
    /\ stepAt <= Len(planList)
    /\ ~(isDryRun /\ summaryOnly)
    /\ LET step == planList[stepAt]
       IN \E rnd \in Draws(step, referenceMap) :
             LET built == BuildRecordsOf(step, isDryRun, referenceMap, rnd)
             IN /\ records' = built.records
                /\ IF Len(built.records) = 0
                   THEN /\ warnings' = Append(built.warns,
                               [rec |-> 0, field |-> "",
                                msg |-> <<"No records to create for ", step.sobject>>])
                        /\ stepAt' = stepAt + 1
                        /\ status' = [status EXCEPT ![stepAt].state = "skipped"]
                        /\ UNCHANGED <<rpc, allDryRunOutput>>
                   ELSE IF isDryRun
                   THEN /\ warnings' = built.warns
                        /\ allDryRunOutput' = MapSet(allDryRunOutput, step.sobject, built.records)
                        /\ stepAt' = stepAt + 1
                        /\ status' = [status EXCEPT ![stepAt].state = "dry"]
                        /\ UNCHANGED rpc
                   ELSE /\ warnings' = built.warns
                        /\ rpc' = "load"
                        /\ UNCHANGED <<stepAt, allDryRunOutput, status>>
    /\ results' = <<>>
    /\ UNCHANGED <<planList, isDryRun, isDryRunSave, summaryOnly, dryRunOutputTo,
                   referenceMap, errorMsg>>
    /\ UNCHANGED <<gvars, mvars, pvars>>

\* run.ts:131-148: conn.bulk.load returns one result per record.
LoadReturns ==
    /\ rpc = "load"
    /\ LET step == planList[stepAt]
       IN \E res \in LoadResults(stepAt, Len(records)) :
             LET successes == Successes(res)
                 failures == Failures(res)
             IN /\ results' = res
                /\ referenceMap' = IF step.saveRefs
                                   THEN MapSet(referenceMap, step.sobject, successes)
                                   ELSE referenceMap
                /\ warnings' =
                      IF Len(failures) > 0
                      THEN warnings
                           \o <<[rec |-> 0, field |-> "",
                                 msg |-> <<ToString(Len(failures)), " failed insert(s):">>]>>
                           \o [i \in 1..Len(failures) |->
                                  [rec |-> 0, field |-> "",
                                   msg |-> <<"ID: ", "N/A">> \o failures[i].errors]]
                      ELSE warnings
                /\ status' = [status EXCEPT ![stepAt] =
                                 [state |-> "returned", ok |-> Len(successes) > 0]]
    /\ stepAt' = stepAt + 1
    /\ rpc' = "loop"
    /\ records' = <<>>
    /\ UNCHANGED <<planList, isDryRun, isDryRunSave, summaryOnly, dryRunOutputTo,
                   allDryRunOutput, errorMsg>>
    /\ UNCHANGED <<gvars, mvars, pvars>>

\* Mutant of LoadThrows: the exception is reported and the loop goes on.
LoadThrowsContinues ==
    /\ rpc = "load"
    /\ status' = [status EXCEPT ![stepAt].state = "threw"]
    /\ errorMsg' = <<"Failed inserting ", planList[stepAt].sobject, ": ", "message">>
    /\ rpc' = "loop"
    /\ stepAt' = stepAt + 1
    /\ records' = <<>>
    /\ UNCHANGED <<planList, isDryRun, isDryRunSave, summaryOnly, dryRunOutputTo,
                   referenceMap, allDryRunOutput,
                   warnings, results>>
    /\ UNCHANGED <<gvars, mvars, pvars>>

\* run.ts:131 and 149-152: conn.bulk.load throws; this.error ends the command.
LoadThrows ==
    /\ rpc = "load"
    /\ status' = [status EXCEPT ![stepAt].state = "threw"]
    /\ errorMsg' = <<"Failed inserting ", planList[stepAt].sobject, ": ", "message">>
    /\ rpc' = "aborted"
    /\ UNCHANGED <<planList, isDryRun, isDryRunSave, summaryOnly, dryRunOutputTo,
                   stepAt, referenceMap, allDryRunOutput,
                   records, warnings, results>>
    /\ UNCHANGED <<gvars, mvars, pvars>>

\* run.ts:85-99: the loop is over and the command completes.
Finish ==
    /\ rpc = "loop"
    /\ stepAt > Len(planList)
    /\ rpc' = "done"
    /\ dryRunOutputTo' = IF isDryRun /\ ~summaryOnly
                         THEN (IF isDryRunSave THEN "file" ELSE "log")
                         ELSE "none"
    /\ records' = <<>>
    /\ warnings' = <<>>
    /\ results' = <<>>
    /\ UNCHANGED <<planList, isDryRun, isDryRunSave, summaryOnly, stepAt, referenceMap,
                   allDryRunOutput, status, errorMsg>>
    /\ UNCHANGED <<gvars, mvars, pvars>>

RunNext == SummaryStep \/ BuildRecords \/ LoadReturns \/ LoadThrows \/ Finish

SpecRun == RunInit /\ [][RunNext]_vars


\* ------------------------------------------------ properties: generate
\* The surviving reference edges of a plan, read from the steps' fields.
PlanEdges(plan) ==
    {<<plan[i].sobject, plan[i].fields[k].name, RefObjOf(plan[i].fields[k].value)>> :
        <<i, k>> \in {<<i, k>> \in (1..Len(plan)) \X (1..(MaxFields + 1)) :
                        /\ k <= Len(plan[i].fields)
                        /\ IsRefToken(plan[i].fields[k].value)}}

\* The edges recorded in the dependency map.
GraphEdges(graph) ==
    UNION {{<<graph[i].key, d.field, d.ref>> : d \in Range(graph[i].deps)} :
              i \in 1..Len(graph)}

\* Position of the step for object o in a plan, 0 when there is none.
PosOf(plan, o) ==
    IF \E i \in 1..Len(plan) : plan[i].sobject = o
    THEN CHOOSE i \in 1..Len(plan) : plan[i].sobject = o
    ELSE 0

Returned == gpc = "done"
Ended == gpc \in {"done", "fault"}

\* C1: in the returned plan every step comes strictly after the step of each
\* object type one of its surviving reference fields targets.
C1_TopologicalValidity ==
    Returned =>
        \A e \in PlanEdges(originalPlan) :
            PosOf(originalPlan, e[3]) # 0 =>
                /\ PosOf(sortedPlan, e[1]) # 0
                /\ PosOf(sortedPlan, e[3]) # 0
                /\ PosOf(sortedPlan, e[3]) < PosOf(sortedPlan, e[1])

\* C1 witness: a plan was returned after a cycle was broken, in which a step
\* that came first in the input follows the step it references.
C1_Witness ==
    /\ Returned
    /\ selectedRemovals # <<>>
    /\ \E e \in PlanEdges(originalPlan) :
          /\ PosOf(originalPlan, e[3]) > PosOf(originalPlan, e[1])
          /\ PosOf(sortedPlan, e[3]) # 0
          /\ PosOf(sortedPlan, e[3]) < PosOf(sortedPlan, e[1])

\* C2: every step handed to getSmartOrderedPlan that has no recorded dependency
\* edge appears in the returned plan.
C2_StepsWithoutDepsReturned ==
    Returned =>
        \A i \in 1..Len(builtPlan) :
            StepDeps(builtPlan[i]) = <<>> => PosOf(sortedPlan, builtPlan[i].sobject) # 0

SaveRefsCorrectWhenReturned ==
    Returned =>
        \A i \in 1..Len(originalPlan) :
            originalPlan[i].saveRefs <=>
                \E e \in PlanEdges(originalPlan) :
                    e[3] = originalPlan[i].sobject /\ e[1] # originalPlan[i].sobject

\* The edges of E between the objects a and b, in either direction.
Between(E, a, b) == {e \in E : (e[1] = a /\ e[3] = b) \/ (e[1] = b /\ e[3] = a)}

\* C4: once the selected edge of a two-object group {from, to} is removed, the
\* dependency map has exactly one edge fewer between the pair and no longer
\* holds edges in both directions.
C4_CycleBreakEffect ==
    \A k \in 1..(removeAt - 1) :
        LET c == ParseChoice(selectedRemovals[k])
            now == Between(GraphEdges(sObjectDepGraph), c.from, c.to)
            was == Between(GraphEdges(BuildDepGraph(builtPlan)), c.from, c.to)
        IN c.from # c.to =>
              /\ Cardinality(now) = Cardinality(was) - 1
              /\ ~(/\ \E e \in now : e[1] = c.from
                   /\ \E e \in now : e[1] = c.to)

\* Pairs <<a, b>> with a path of one or more edges of E from a to b.
Reach(E) ==
    LET step(R) == R \cup {<<p[1], q[2]>> : <<p, q>> \in {<<p, q>> \in R \X R : p[2] = q[1]}}
        F[n \in 0..Len(ObjNames)] ==
            IF n = 0 THEN {<<e[1], e[3]>> : e \in E} ELSE step(F[n - 1])
    IN F[Len(ObjNames)]

Acyclic(E) == \A r \in Reach(E) : r[1] # r[2]

Resolved == (gpc = "remove" /\ removeAt > Len(selectedRemovals)) \/ Ended

\* C5 (as claimed): after cycle resolution the reference edges are acyclic.
C5_AcyclicAfterResolution == Resolved => Acyclic(PlanEdges(originalPlan))

\* C5 (amended): a returned plan has acyclic reference edges, and the
\* cyclic-dependency fault is raised exactly when a cycle survived resolution.
C5_AcyclicWhenReturned ==
    /\ Returned => Acyclic(PlanEdges(originalPlan))
    /\ gpc = "fault" => ~Acyclic(PlanEdges(originalPlan))

\* C5 witness: a cyclic plan whose cycle was broken by a removal and returned
\* with reference edges left.
C5_Witness ==
    /\ Returned
    /\ selectedRemovals # <<>>
    /\ ~Acyclic(PlanEdges(builtPlan))
    /\ PlanEdges(originalPlan) # {}
    /\ Len(sortedPlan) >= 2

\* ----------------------------------------------------- properties: run
\* A step's records are built and its load has not returned (run.ts:119-131).
Built == records # <<>>

\* The step the built records belong to: a dry run has already moved on.
BuiltStep == IF rpc = "loop" THEN planList[stepAt - 1] ELSE planList[stepAt]

\* Building the records did not end the run: the load is submitted and may
\* return, or, in a dry run, the loop goes on.
RunContinues ==
    /\ rpc = "load" => ENABLED LoadReturns
    /\ rpc = "loop" => ENABLED (BuildRecords \/ Finish)
    /\ rpc = "aborted" => status[stepAt].state = "threw"

\* The steps before q for object type X, flagged saveRefs, whose load returned.
SavedBefore(X, q) ==
    {p \in 1..(q - 1) : /\ planList[p].sobject = X
                        /\ planList[p].saveRefs
                        /\ status[p].state = "returned"}

Latest(S) == CHOOSE p \in S : \A r \in S : r <= p

\* The plan step whose load returned the identifier id.
IdStepIs(id, p) == id.t = "string" /\ Len(id.s) = 3 /\ id.s[1] = "id" /\ id.s[2] = ToString(p)

\* Field k of the step holds a reference token once its counters are replaced.
IsRefField(step, k) ==
    /\ step.fields[k].value.t = "string"
    /\ StartsWith(step.fields[k].value.s, "@{")
    /\ EndsWith(step.fields[k].value.s, "}")

RefKeyOf(step, k) == SplitDotFirst(Slice2(step.fields[k].value.s))

WarnsFor(i, name) == {j \in 1..Len(warnings) : warnings[j].rec = i /\ warnings[j].field = name}

\* The table holds an entry for X exactly when a saveRefs step for X has had
\* its load return, and the entry is the success list of the latest such step.
TablePopulation ==
    /\ \A X \in Objects : X \in DOMAIN referenceMap <=> SavedBefore(X, stepAt) # {}
    /\ \A X \in DOMAIN referenceMap : \A j \in 1..Len(referenceMap[X]) :
          /\ isSuccess(referenceMap[X][j])
          /\ IdStepIs(referenceMap[X][j].id, Latest(SavedBefore(X, stepAt)))
    /\ (rpc = "loop" /\ results # <<>> /\ planList[stepAt - 1].saveRefs) =>
          referenceMap[planList[stepAt - 1].sobject] = Successes(results)

\* A reference to a type without table entry gives null, and the run goes on.
NoEntryGivesNull(dryToo) ==
    (Built /\ (dryToo \/ ~isDryRun)) =>
        \A i \in 1..Len(records) : \A k \in 1..Len(records[i]) :
            (IsRefField(BuiltStep, k)
             /\ RefKeyOf(BuiltStep, k) \notin DOMAIN referenceMap) =>
                 /\ records[i][k].value = Null
                 /\ RunContinues

\* In a dry run a reference token is left as it is written, without warning.
DryKeepsToken(withWarnings) ==
    (Built /\ isDryRun) =>
        \A i \in 1..Len(records) : \A k \in 1..Len(records[i]) :
            IsRefField(BuiltStep, k) =>
                /\ records[i][k].value = BuiltStep.fields[k].value
                /\ withWarnings => WarnsFor(i, BuiltStep.fields[k].name) = {}

\* C6 (as claimed): table population, and a reference without entry is null,
\* in every run.
C6_TableAndNullInEveryRun == TablePopulation /\ NoEntryGivesNull(TRUE)

\* C6 (amended): table population in every run, the entry being the success
\* list of the latest completed saveRefs step of the type; outside dry-run
\* mode a reference to a type without entry resolves to null and the run
\* continues; in dry-run mode the token is left as written.
C6_TablePopulation ==
    TablePopulation /\ NoEntryGivesNull(FALSE) /\ DryKeepsToken(FALSE)

\* C6 witness: a step referencing a type that has no entry (its only step did
\* not ask for saveRefs) was built with a null, after another load returned.
C6_Witness ==
    /\ rpc = "load"
    /\ \E p \in 1..(stepAt - 1) : status[p].state = "returned" /\ ~planList[p].saveRefs
    /\ \E i \in 1..Len(records) : \E k \in 1..Len(records[i]) :
          /\ IsRefField(planList[stepAt], k)
          /\ RefKeyOf(planList[stepAt], k) \notin DOMAIN referenceMap
          /\ records[i][k].value = Null

\* C7: a reference token resolved to a non-null value carries the id of an
\* element of the table's list for the referenced type at that moment.
C7_ResolvedIsMember ==
    (Built /\ ~isDryRun) =>
        \A i \in 1..Len(records) : \A k \in 1..Len(records[i]) :
            (IsRefField(BuiltStep, k) /\ records[i][k].value # Null) =>
                \E j \in 1..Len(TableGet(referenceMap, RefKeyOf(BuiltStep, k))) :
                    /\ records[i][k].value = referenceMap[RefKeyOf(BuiltStep, k)][j].id
                    /\ isSuccess(referenceMap[RefKeyOf(BuiltStep, k)][j])

\* C7 witness: two records of one step resolved the same token to different
\* identifiers of the list.
C7_Witness ==
    /\ rpc = "load"
    /\ \E i, j \in 1..Len(records) : \E k \in 1..Len(planList[stepAt].fields) :
          /\ IsRefField(planList[stepAt], k)
          /\ records[i][k].value # Null
          /\ records[j][k].value # Null
          /\ records[i][k].value # records[j][k].value

\* A reference to a type with no retained success gives null and exactly one
\* warning for that field of that record, and no abort.
ZeroSuccessesGiveNull(dryToo) ==
    (Built /\ (dryToo \/ ~isDryRun)) =>
        \A i \in 1..Len(records) : \A k \in 1..Len(records[i]) :
            (IsRefField(BuiltStep, k)
             /\ Len(TableGet(referenceMap, RefKeyOf(BuiltStep, k))) = 0) =>
                 /\ records[i][k].value = Null
                 /\ Cardinality(WarnsFor(i, BuiltStep.fields[k].name)) = 1
                 /\ RunContinues

\* C8 (as claimed): null and exactly one warning, in every run.
C8_NullAndOneWarningInEveryRun == ZeroSuccessesGiveNull(TRUE)

\* C8 (amended): outside dry-run mode a reference token whose type has no
\* retained success resolves to null with exactly one warning and no throw;
\* in dry-run mode it is left as written and no warning is emitted.
C8_NullAndOneWarning == ZeroSuccessesGiveNull(FALSE) /\ DryKeepsToken(TRUE)

\* C8 witness: the referenced type has an entry that is the empty list, and
\* the record got null with its one warning.
C8_Witness ==
    /\ rpc = "load"
    /\ \E i \in 1..Len(records) : \E k \in 1..Len(records[i]) :
          /\ IsRefField(planList[stepAt], k)
          /\ RefKeyOf(planList[stepAt], k) \in DOMAIN referenceMap
          /\ referenceMap[RefKeyOf(planList[stepAt], k)] = <<>>
          /\ records[i][k].value = Null
          /\ Cardinality(WarnsFor(i, planList[stepAt].fields[k].name)) = 1

\* Steps are processed in plan order, one load at a time.
PlanOrder ==
    /\ \A p \in 1..Len(planList) :
          /\ p < stepAt => status[p].state # "pending"
          /\ p > stepAt => status[p].state = "pending"
    /\ rpc = "load" => (stepAt <= Len(planList) /\ status[stepAt].state = "pending")

\* Every record of the step being loaded carries its one-based index in place
\* of the counter token.
CounterCarried ==
    rpc = "load" =>
        \A i \in 1..Len(records) : \A k \in 1..Len(records[i]) :
            planList[stepAt].fields[k].value = CounterLit =>
                records[i][k].value = Str(<<"User-", ToString(i)>>)

LatestSavedBefore(X, q) ==
    IF SavedBefore(X, q) = {} THEN {} ELSE {Latest(SavedBefore(X, q))}

\* The records of the step being loaded carry, in a field referencing type X,
\* an identifier returned by the load of each earlier saveRefs step of X that
\* had a success (latestOnly: of the latest such step that returned).
CarriesIdsOf(latestOnly) ==
    rpc = "load" =>
        \A k \in 1..Len(planList[stepAt].fields) :
            IsRefField(planList[stepAt], k) =>
                \A p \in (IF latestOnly
                          THEN LatestSavedBefore(RefKeyOf(planList[stepAt], k), stepAt)
                          ELSE SavedBefore(RefKeyOf(planList[stepAt], k), stepAt)) :
                    status[p].ok =>
                        /\ Len(records) = planList[stepAt].count
                        /\ \A i \in 1..Len(records) : IdStepIs(records[i][k].value, p)

\* C9 (as claimed): plan order, and the records of B carry identifiers of
\* every earlier saveRefs step A of the referenced type that had a success.
C9_SequentialAnyEarlierStep == PlanOrder /\ CounterCarried /\ CarriesIdsOf(FALSE)

\* C9 (amended): plan order, and the records of B carry identifiers of the
\* latest earlier saveRefs step of the referenced type whose load returned,
\* when that step had a success; record i carries i+1 for its counter token.
C9_SequentialLatestStep == PlanOrder /\ CounterCarried /\ CarriesIdsOf(TRUE)

\* C9 witness: B is loaded with all its records carrying identifiers of A.
C9_Witness ==
    /\ rpc = "load"
    /\ Len(records) >= 2
    /\ \E k \in 1..Len(planList[stepAt].fields) :
          /\ IsRefField(planList[stepAt], k)
          /\ SavedBefore(RefKeyOf(planList[stepAt], k), stepAt) # {}
          /\ \A i \in 1..Len(records) :
                IdStepIs(records[i][k].value,
                         Latest(SavedBefore(RefKeyOf(planList[stepAt], k), stepAt)))
    /\ \E k \in 1..Len(planList[stepAt].fields) :
          /\ planList[stepAt].fields[k].value = CounterLit
          /\ records[2][k].value = Str(<<"User-", "2">>)

\* C10: the run is aborted exactly when a load threw; then the error names
\* the object type of that step, and no later step is touched, in this state
\* and ever after (a step that threw stays recorded); a load that returns
\* failures reports them and leaves the loop at the next step.
C10_AbortIffException ==
    /\ rpc = "aborted" <=> \E p \in 1..Len(planList) : status[p].state = "threw"
    /\ rpc = "aborted" =>
          /\ status[stepAt].state = "threw"
          /\ errorMsg = <<"Failed inserting ", planList[stepAt].sobject, ": ", "message">>
          /\ \A p \in (stepAt + 1)..Len(planList) : status[p].state = "pending"
    /\ rpc # "aborted" => errorMsg = <<>>
    /\ (rpc = "loop" /\ results # <<>>) =>
          /\ status[stepAt - 1].state = "returned"
          /\ Len(Failures(results)) > 0 =>
                \E j \in 1..Len(warnings) :
                    warnings[j].msg = <<ToString(Len(Failures(results))),
                                        " failed insert(s):">>
          /\ stepAt <= Len(planList) => status[stepAt].state = "pending"

\* C10 witness: a load returned per-record failures, the next step was still
\* submitted, and its load threw.
C10_Witness ==
    /\ rpc = "aborted"
    /\ stepAt < Len(planList)
    /\ \E p \in 1..(stepAt - 1) :
          status[p].state = "returned" /\ ~status[p].ok /\ planList[p].sobject # planList[stepAt].sobject

\* C19: in a dry run no bulk load is ever submitted to the org and the
\* identifier table stays empty, for every plan and every value of the save
\* and summaryonly flags.
C19_DryRunSubmitsNothing ==
    isDryRun =>
        /\ rpc \notin {"load", "aborted"}
        /\ results = <<>>
        /\ referenceMap = <<>>
        /\ \A p \in 1..Len(planList) : status[p].state \notin {"returned", "threw"}

C19_Witness ==
    /\ isDryRun
    /\ rpc = "done"
    /\ dryRunOutputTo = "file"
    /\ \E p \in 1..Len(planList) : status[p].state = "dry"
    /\ referenceMap = <<>>

\* ============================================================ seeder:data:migrate
\* A record identifier is a string of characters: the three characters of the
\* key prefix of its object type and a serial.
\* ------------------------------------------------------------------ bounds
\* Largest number of entries in a migration plan file.
MaxEntries == 2
\* Largest number of records a source query returns.
MaxRows == 2

Undefined == [t |-> "undefined", s |-> <<>>]
Empty == Str(<<>>)

\* JavaScript truthiness of a FieldValue (!value of part_001:200, if (mappedId)).
Truthy(v) ==
    /\ v.t \notin {"null", "undefined"}
    /\ v.t = "string" => v.s # <<>>

MigObjects == {"Account", "Case", "Task"}

\* DescribeSObjectResult.keyPrefix of the three object types.
KeyPrefix(o) ==
    CASE o = "Account" -> <<"0", "0", "1">>
      [] o = "Case" -> <<"5", "0", "0">>
      [] OTHER -> <<"0", "0", "T">>

\* Identifier n of object type o in the source ("x") or the target ("y") org.
OrgId(o, org, n) == Str(KeyPrefix(o) \o <<org, ToString(n)>>)

\* One element of DescribeSObjectResult.fields.
FieldMeta(name, updateable, calculated, custom, type, referenceTo) ==
    [name |-> name, updateable |-> updateable, calculated |-> calculated,
     custom |-> custom, type |-> type, referenceTo |-> referenceTo]

\* conn.sobject(o).describe() of an org.  The schema is the org's: profile
\* says whether it reports Id as updateable and whether Subject of Case can
\* be written there; the other fields are the same in every org.
DescribeOf(org, o, profile) ==
    [org |-> org, name |-> o, keyPrefix |-> KeyPrefix(o),
     fields |->
        <<FieldMeta("Id", profile.idUpdateable, FALSE, FALSE, "id", <<>>)>> \o
        (CASE o = "Account" ->
                <<FieldMeta("Name", TRUE, FALSE, FALSE, "string", <<>>),
                  FieldMeta("Formula__c", FALSE, TRUE, TRUE, "string", <<>>)>>
           [] o = "Case" ->
                <<FieldMeta("Subject", profile.subjectUpdateable, FALSE, FALSE, "string", <<>>),
                  FieldMeta("AccountId", TRUE, FALSE, FALSE, "reference", <<"Account">>)>>
           [] OTHER ->
                <<FieldMeta("Subject", TRUE, FALSE, FALSE, "string", <<>>),
                  FieldMeta("WhatId", TRUE, FALSE, FALSE, "reference",
                            IF profile.whatIdToCase THEN <<"Case", "Account">>
                            ELSE <<"Account">>),
                  FieldMeta("Locked__c", FALSE, FALSE, TRUE, "string", <<>>),
                  FieldMeta("CreatedDate", FALSE, FALSE, FALSE, "datetime", <<>>)>>)]

\* The describe result an org of the run gives.
OrgDescribe(org, o) == DescribeOf(org, o, orgs[org])

\* describe.fields.find(f => f.name === field); Undefined when there is none.
FindField(describe, field) ==
    IF \E i \in 1..Len(describe.fields) : describe.fields[i].name = field
    THEN describe.fields[CHOOSE i \in 1..Len(describe.fields) :
                            /\ describe.fields[i].name = field
                            /\ \A j \in 1..(i - 1) : describe.fields[j].name # field]
    ELSE Undefined

\* this.describeCache[o] ?? describe of the org asked (part_001:139-142, 177-179,
\* 212-215): the cached result is used whichever org it came from.
CacheGet(cache, org, o) == IF o \in DOMAIN cache THEN cache[o] ELSE OrgDescribe(org, o)
CachePut(cache, org, o) == [k \in DOMAIN cache \cup {o} |-> CacheGet(cache, org, k)]

\* ---- SOQL text: "SELECT", the field names separated by ",", "FROM", the
\* object name, and whatever follows.
Soql(fields, o, tail) ==
    LET Commas[i \in 0..Len(fields)] ==
            IF i = 0 THEN <<>>
            ELSE IF i = 1 THEN <<fields[1]>>
            ELSE Commas[i - 1] \o <<",", fields[i]>>
    IN <<"SELECT">> \o Commas[Len(fields)] \o <<"FROM", o>> \o tail

\* soql.match(/SELECT\s+(.+?)\s+FROM\s+(\w+)/i): the lazy group ends at the
\* first FROM that an object name follows; Undefined when there is no match.
MatchSoql(soql) ==
    LET froms == {j \in 3..(Len(soql) - 1) : soql[1] = "SELECT" /\ soql[j] = "FROM"}
    IN IF froms = {} THEN Undefined
       ELSE LET j == CHOOSE m \in froms : \A n \in froms : m <= n
            IN [t |-> "match", fieldListRaw |-> SubSeq(soql, 2, j - 1), sobject |-> soql[j + 1]]

\* fieldListRaw.split(',').map(f => f.trim()) of part_001:138.
SplitCommas(raw) == SelectSeq(raw, LAMBDA tok : tok # ",")

\* The reason of part_001:158-162 for a field that is not kept.
SkipReason(info) ==
    IF info # Undefined /\ info.calculated THEN "Formula field"
    ELSE IF info # Undefined /\ info.custom THEN "Custom non-editable"
    ELSE "Standard non-editable"

\* part_001:128-170; the describe of part_001:140 is asked of the target org.
\* The result is [cleanedQuery, keptFields, log, cache].
sanitizeSOQLQuery(cache, soql) ==
    LET match == MatchSoql(soql)
        fields == SplitCommas(match.fieldListRaw)
        cache2 == CachePut(cache, "target", match.sobject)
        describe == cache2[match.sobject]
        editable(f) == \E i \in 1..Len(describe.fields) :
                           /\ describe.fields[i].name = f
                           /\ describe.fields[i].updateable
                           /\ ~describe.fields[i].calculated
        skipLine(f) == <<"[!] Skipped field \"", f, "\" on \"", match.sobject, "\" - ",
                         SkipReason(FindField(describe, f))>>
        kept == SelectSeq(fields, editable)
        skipped == SelectSeq(fields, LAMBDA f : ~editable(f))
    IN [cleanedQuery |-> Soql(kept, match.sobject, <<>>),
        keptFields |-> kept,
        log |-> [i \in 1..Len(skipped) |-> skipLine(skipped[i])],
        cache |-> cache2]

\* part_001:172-191: the reference fields among keptFields and their
\* candidate object types, read from this.describeCache[sobject].
getReferenceFieldMap(cache, sobject, keptFields) ==
    LET cache2 == CachePut(cache, "source", sobject)
        meta(f) == FindField(cache2[sobject], f)
        isRef(f) == meta(f) # Undefined /\ meta(f).type = "reference"
        names == {keptFields[i] : i \in {j \in 1..Len(keptFields) : isRef(keptFields[j])}}
    IN [fieldMap |-> [f \in names |-> meta(f).referenceTo], cache |-> cache2]

\* ---- Map<string, string> kept as a sequence of [key, val] in insertion order
IdMapHas(m, key) == \E i \in 1..Len(m) : m[i].key = key
IdMapGet(m, key) ==
    IF IdMapHas(m, key) THEN m[CHOOSE i \in 1..Len(m) : m[i].key = key].val ELSE Undefined
IdMapSet(m, key, val) ==
    IF IdMapHas(m, key)
    THEN [i \in 1..Len(m) |-> IF m[i].key = key THEN [key |-> key, val |-> val] ELSE m[i]]
    ELSE Append(m, [key |-> key, val |-> val])
\* Array.from(idMap.keys())[index], index counted from 0.
IdMapKeyAt(m, index) == IF index + 1 <= Len(m) THEN m[index + 1].key ELSE Undefined

\* record[name]; Undefined when the record has no such property.
RecGet(record, name) ==
    IF \E k \in 1..Len(record) : record[k].name = name
    THEN record[CHOOSE k \in 1..Len(record) : record[k].name = name].value
    ELSE Undefined

\* value.substring(0, 3).
Substring3(s) == SubSeq(s, 1, IF Len(s) < 3 THEN Len(s) ELSE 3)

\* part_001:205-221: the object type a reference value is taken to point to;
\* obj is "undefined" when no candidate is selected.  The candidates looked
\* at are described through the source connection when not cached.
RECURSIVE PickByPrefix(_, _, _, _)
PickByPrefix(idPrefix, possibleObjects, i, cache) ==
    IF i > Len(possibleObjects) THEN [obj |-> "undefined", cache |-> cache]
    ELSE LET cache2 == CachePut(cache, "source", possibleObjects[i])
         IN IF cache2[possibleObjects[i]].keyPrefix = idPrefix
            THEN [obj |-> possibleObjects[i], cache |-> cache2]
            ELSE PickByPrefix(idPrefix, possibleObjects, i + 1, cache2)

ReferencedObject(value, possibleObjects, cache) ==
    IF Len(possibleObjects) = 1 THEN [obj |-> possibleObjects[1], cache |-> cache]
    ELSE PickByPrefix(Substring3(value.s), possibleObjects, 1, cache)

\* Mutant of ResolveField: the field is rewritten to whatever the map holds
\* for the value, the placeholder '' included.
ResolveFieldAnyEntry(fieldName, value, referenceFieldMap, idMaps, cache) ==
    IF ~Truthy(value) \/ value.t # "string" \/ ~StartsWith(value.s, "0")
    THEN [value |-> value, cache |-> cache]
    ELSE IF fieldName \notin DOMAIN referenceFieldMap
    THEN [value |-> value, cache |-> cache]
    ELSE LET pick == ReferencedObject(value, referenceFieldMap[fieldName], cache)
         IN IF pick.obj # "undefined" /\ pick.obj \in DOMAIN idMaps
               /\ IdMapHas(idMaps[pick.obj], value)
            THEN [value |-> IdMapGet(idMaps[pick.obj], value), cache |-> pick.cache]
            ELSE [value |-> value, cache |-> pick.cache]

\* The body of the loop of part_001:199-229 for one property of the record.
ResolveField(fieldName, value, referenceFieldMap, idMaps, cache) ==
    IF ~Truthy(value) \/ value.t # "string" \/ ~StartsWith(value.s, "0")
    THEN [value |-> value, cache |-> cache]
    ELSE IF fieldName \notin DOMAIN referenceFieldMap
    THEN [value |-> value, cache |-> cache]
    ELSE LET pick == ReferencedObject(value, referenceFieldMap[fieldName], cache)
             mappedId == IdMapGet(idMaps[pick.obj], value)
         IN IF pick.obj # "undefined" /\ pick.obj \in DOMAIN idMaps /\ Truthy(mappedId)
            THEN [value |-> mappedId, cache |-> pick.cache]
            ELSE [value |-> value, cache |-> pick.cache]

\* part_001:193-230, from property k of the record on; the result is
\* [record, cache].
RECURSIVE ResolveFrom(_, _, _, _, _)
ResolveFrom(record, k, referenceFieldMap, idMaps, cache) ==
    IF k > Len(record) THEN [record |-> record, cache |-> cache]
    ELSE LET r == ResolveField(record[k].name, record[k].value, referenceFieldMap,
                               idMaps, cache)
         IN ResolveFrom([record EXCEPT ![k].value = r.value], k + 1, referenceFieldMap,
                        idMaps, r.cache)

resolveReferencesWithFieldMap(record, referenceFieldMap, idMaps, cache) ==
    ResolveFrom(record, 1, referenceFieldMap, idMaps, cache)

\* ---- the source org's data
\* The value row n of object type o holds in field f: the rows of Case point
\* to an Account or to nothing, those of Task to an Account or to a Case.
RowValue(o, f, n) ==
    CASE f = "Id" -> OrgId(o, "x", n)
      [] f = "AccountId" -> IF n % 2 = 1 THEN OrgId("Account", "x", (n + 1) \div 2) ELSE Null
      [] f = "WhatId" -> IF n % 2 = 1 THEN OrgId("Account", "x", (n + 1) \div 2)
                         ELSE OrgId("Case", "x", n \div 2)
      [] OTHER -> Str(<<f, " of ", ToString(n)>>)

\* The records sourceConn.query can return for a field list: the first n rows
\* of the object type, n up to MaxRows, each with the queried fields only, in
\* query order.
QueryRows(o, fields) ==
    {[i \in 1..n |-> [k \in 1..Len(fields) |->
                         [name |-> fields[k], value |-> RowValue(o, fields[k], i)]]] :
        n \in 0..MaxRows}

\* record minus Id (and attributes), part_001:92-93.
DeleteId(record) == SelectSeq(record, LAMBDA p : p.name # "Id")

\* part_001:87-100: the records to insert, the placeholder map and the cache
\* after the references of every record are resolved.
RECURSIVE PrepareFrom(_, _, _, _, _, _, _)
PrepareFrom(queried, i, referenceFieldMap, idMaps, cache, sourceToInsert, idMap) ==
    IF i > Len(queried)
    THEN [sourceToInsert |-> sourceToInsert, idMap |-> idMap, cache |-> cache]
    ELSE LET originalId == RecGet(queried[i], "Id")
             r == resolveReferencesWithFieldMap(DeleteId(queried[i]), referenceFieldMap,
                                                idMaps, cache)
         IN PrepareFrom(queried, i + 1, referenceFieldMap, idMaps, r.cache,
                        Append(sourceToInsert, r.record), IdMapSet(idMap, originalId, Empty))

\* Identifier the target org gives record i of the insert of plan entry p.
TargetId(o, p, i) == Str(KeyPrefix(o) \o <<"y", ToString(p), ToString(i)>>)

\* The results targetConn.insert can return for n records.
InsertResults(o, p, n) ==
    {[i \in 1..n |-> IF ok[i] THEN [success |-> TRUE, id |-> TargetId(o, p, i), errors |-> <<>>]
                     ELSE [success |-> FALSE, id |-> Undefined,
                           errors |-> <<"DUPLICATE_VALUE">>]] : ok \in [1..n -> BOOLEAN]}

\* part_001:107-114: the map after results 1..j are recorded, and the lines
\* logged for the failed ones.
RECURSIVE RecordResults(_, _, _, _)
RecordResults(o, insertResults, j, idMap) ==
    IF j = 0 THEN [idMap |-> idMap, log |-> <<>>]
    ELSE LET before == RecordResults(o, insertResults, j - 1, idMap)
             oldId == IdMapKeyAt(before.idMap, j - 1)
         IN IF insertResults[j].success
            THEN [idMap |-> IdMapSet(before.idMap, oldId, insertResults[j].id),
                  log |-> before.log]
            ELSE [idMap |-> before.idMap,
                  log |-> Append(before.log,
                                 <<"[!] Failed to insert ", o, " record (", oldId, "): ",
                                   insertResults[j].errors>>)]

\* ---- the plan files of the model (README "Sample Migrate Plan")
MigEntry(o, query, operation, externalId) ==
    [sobject |-> o, query |-> query, operation |-> operation, externalId |-> externalId]

DeclaredFields(o) ==
    CASE o = "Account" -> <<"Id", "Name", "Formula__c">>
      [] o = "Case" -> <<"Id", "Subject", "AccountId">>
      [] OTHER -> <<"Id", "Subject", "WhatId", "Locked__c", "CreatedDate">>

DeclaredQuery(o) ==
    Str(Soql(DeclaredFields(o), o, IF o = "Task" THEN <<"LIMIT", "2">> ELSE <<>>))

MigEntries ==
    {MigEntry(o, DeclaredQuery(o), Undefined, Undefined) : o \in MigObjects}
    \cup {MigEntry("Account", Undefined, Undefined, Undefined),
          MigEntry("Account", DeclaredQuery("Account"), Str(<<"Upsert">>), Str(<<"External_Id__c">>)),
          MigEntry("Account", DeclaredQuery("Account"), Str(<<"Upsert">>), Undefined)}

MigPlans == UNION {[1..n -> MigEntries] : n \in 1..MaxEntries}

\* The schemas of the orgs of a run: the source org is a plain one; the target
\* org is the same, or reports Id as updateable, or has Subject of Case
\* read-only.
PlainOrg == [idUpdateable |-> FALSE, subjectUpdateable |-> TRUE, whatIdToCase |-> TRUE]
OrgProfiles ==
    {PlainOrg,
     [idUpdateable |-> TRUE, subjectUpdateable |-> TRUE, whatIdToCase |-> TRUE],
     [idUpdateable |-> FALSE, subjectUpdateable |-> FALSE, whatIdToCase |-> TRUE],
     [idUpdateable |-> FALSE, subjectUpdateable |-> TRUE, whatIdToCase |-> FALSE]}

\* ---- actions of seeder:data:migrate
\* part_001:44-70: plan file read, empty identifier maps, empty describe cache.
MigInit ==
    /\ mpc = "loop"
    /\ orgs \in [{"source", "target"} -> OrgProfiles]
    /\ orgs["source"] = PlainOrg
    /\ mplan \in MigPlans
    /\ entryAt = 1
    /\ describeCache = <<>>
    /\ idMapBySObject = <<>>
    /\ mwork = <<>>
    /\ mlog = <<>>
    /\ mstatus = [p \in 1..Len(mplan) |-> "pending"]
    /\ submitted = <<>>
    /\ GenIdle
    /\ RunIdle
    /\ PureIdle

MigFrame == UNCHANGED <<gvars, rvars, pvars, orgs, mplan>>

\* part_001:74-81: the query is sanitized against the target schema and the
\* reference fields are looked up.
MigSanitize ==
    /\ mpc = "loop"
    /\ entryAt <= Len(mplan)
    /\ Truthy(mplan[entryAt].query)
    /\ MatchSoql(mplan[entryAt].query.s) # Undefined
    /\ LET san == sanitizeSOQLQuery(describeCache, mplan[entryAt].query.s)
           ref == getReferenceFieldMap(san.cache, mplan[entryAt].sobject, san.keptFields)
       IN /\ mwork' = [cleanedQuery |-> san.cleanedQuery, keptFields |-> san.keptFields,
                       referenceFieldMap |-> ref.fieldMap]
          /\ mlog' = san.log
          /\ describeCache' = ref.cache
    /\ mpc' = "query"
    /\ UNCHANGED <<entryAt, idMapBySObject, mstatus, submitted>>
    /\ MigFrame

\* part_001:84-100: the source query returns; every record is cloned without
\* Id, its references are resolved and its old id gets a placeholder.  A
\* query without field list is rejected by the platform, so it cannot return.
MigQueryReturns ==
    /\ mpc = "query"
    /\ mwork.keptFields # <<>>
    /\ \E queried \in QueryRows(MatchSoql(mwork.cleanedQuery).sobject, mwork.keptFields) :
          LET prep == PrepareFrom(queried, 1, mwork.referenceFieldMap, idMapBySObject,
                                  describeCache, <<>>, <<>>)
          IN /\ mwork' = [queried |-> queried, sourceToInsert |-> prep.sourceToInsert,
                          idMap |-> prep.idMap,
                          rowIds |-> [i \in 1..Len(queried) |->
                                         OrgId(MatchSoql(mwork.cleanedQuery).sobject, "x", i)]]
             /\ describeCache' = prep.cache
    /\ mpc' = "insert"
    /\ UNCHANGED <<entryAt, idMapBySObject, mlog, mstatus, submitted>>
    /\ MigFrame

\* part_001:105-119: targetConn.insert returns one result per record.
MigInsertReturns ==
    /\ mpc = "insert"
    /\ \E insertResults \in InsertResults(mplan[entryAt].sobject, entryAt,
                                          Len(mwork.sourceToInsert)) :
          LET rec == RecordResults(mplan[entryAt].sobject, insertResults,
                                   Len(insertResults), mwork.idMap)
          IN /\ idMapBySObject' =
                    [o \in DOMAIN idMapBySObject \cup {mplan[entryAt].sobject} |->
                        IF o = mplan[entryAt].sobject THEN rec.idMap ELSE idMapBySObject[o]]
             /\ mlog' = mlog \o rec.log
             /\ mwork' = [rowIds |-> mwork.rowIds, insertResults |-> insertResults]
    /\ submitted' = Append(submitted, [entry |-> entryAt, sobject |-> mplan[entryAt].sobject,
                                       method |-> "insert"])
    /\ mstatus' = [mstatus EXCEPT ![entryAt] = "inserted"]
    /\ entryAt' = entryAt + 1
    /\ mpc' = "loop"
    /\ UNCHANGED describeCache
    /\ MigFrame

\* part_001:76 and 133: an entry without query, or with a query the pattern
\* does not match, throws inside the try.
\* part_001:120-123: the catch calls this.error, which raises and ends the
\* command.
MigRejects ==
    /\ mpc = "loop"
    /\ entryAt <= Len(mplan)
    /\ ~Truthy(mplan[entryAt].query) \/ MatchSoql(mplan[entryAt].query.s) = Undefined
    /\ mlog' = <<<<"Error with ", mplan[entryAt].sobject, ": ",
                   IF Truthy(mplan[entryAt].query) THEN "Invalid SOQL"
                   ELSE "Query must be defined in the plan.">>>>
    /\ mstatus' = [mstatus EXCEPT ![entryAt] = "threw"]
    /\ mpc' = "aborted"
    /\ UNCHANGED <<entryAt, describeCache, idMapBySObject, mwork, submitted>>
    /\ MigFrame

\* A describe (part_001:140, 178, 214), the query (part_001:84) or the insert
\* (part_001:105) throws: the catch of part_001:120-123 calls this.error.
MigCallThrows ==
    /\ \/ mpc = "loop" /\ entryAt <= Len(mplan) /\ Truthy(mplan[entryAt].query)
       \/ mpc \in {"query", "insert"}
    /\ mlog' = Append(mlog, <<"Error with ", mplan[entryAt].sobject, ": ", "message">>)
    /\ submitted' = IF mpc = "insert"
                    THEN Append(submitted, [entry |-> entryAt,
                                            sobject |-> mplan[entryAt].sobject,
                                            method |-> "insert"])
                    ELSE submitted
    /\ mstatus' = [mstatus EXCEPT ![entryAt] = "threw"]
    /\ mpc' = "aborted"
    /\ UNCHANGED <<entryAt, describeCache, idMapBySObject, mwork>>
    /\ MigFrame

\* part_001:64-66: the loop is over.
MigFinish ==
    /\ mpc = "loop"
    /\ entryAt > Len(mplan)
    /\ mpc' = "done"
    /\ mwork' = <<>>
    /\ mlog' = <<>>
    /\ UNCHANGED <<entryAt, describeCache, idMapBySObject, mstatus, submitted>>
    /\ MigFrame

MigNext ==
    \/ MigSanitize
    \/ MigQueryReturns
    \/ MigInsertReturns
    \/ MigRejects
    \/ MigCallThrows
    \/ MigFinish

SpecMig == MigInit /\ [][MigNext]_vars

\* ============================================================ pure functions
\* processValue (run.ts) and resolveReferencesWithFieldMap (part_001) applied
\* once to arguments drawn from the sets below.
FakerExpr(path) ==
    LET Dotted[i \in 0..Len(path)] ==
            IF i = 0 THEN <<>>
            ELSE IF i = 1 THEN <<path[1]>>
            ELSE Dotted[i - 1] \o <<".", path[i]>>
    IN Str(<<"#{faker.">> \o Dotted[Len(path)] \o <<"}">>)

\* The field values of a plan step: a number, null, a literal, a counter
\* literal, reference tokens, and expressions that resolve, name an
\* undefined member, throw, or name a module.
PVValues ==
    {Num("7"), Null, PlainLit, CounterLit, RefTok("A"), RefTok("B"),
     Str(<<"@{", "A", ".", "Id", "}", "#{counter}">>),
     FakerExpr(<<"person", "lastName">>), FakerExpr(<<"person", "nope">>),
     FakerExpr(<<"nope", "lastName">>), FakerExpr(<<"helpers", "fake">>),
     FakerExpr(<<"person">>)}

\* Identifier tables: none, an empty list, one and two retained successes.
PVTables ==
    {<<>>} \cup {[o \in {"A"} |-> SubSeq(<<OkResult(1, 1), OkResult(1, 2)>>, 1, n)] :
                   n \in 0..2}

PVCalls ==
    [fn : {"processValue"}, value : PVValues, counter : 0..MaxCount, isDryRun : BOOLEAN,
     referenceMap : PVTables, rnd : 1..2]

\* Reference values of a record: identifiers of the three object types, null,
\* the empty string and a number.
RRValues == {OrgId(o, "x", 1) : o \in MigObjects} \cup {Null, Empty, Num("7")}

\* Candidate lists of a reference field (<<>> in a call: the field has no
\* entry in referenceFieldMap).
RRCandidates ==
    {<<"Account">>, <<"Case">>, <<"Account", "Case">>, <<"Case", "Account">>,
     <<"Task", "Account">>, <<"Case", "Task">>}

\* The map of one object type: its first source identifier mapped to a new
\* identifier or still to the placeholder '', or no entry at all.
RRIdMaps(o) ==
    {<<>>,
     <<[key |-> OrgId(o, "x", 1), val |-> TargetId(o, 1, 1)]>>,
     <<[key |-> OrgId(o, "x", 1), val |-> Empty]>>,
     <<[key |-> OrgId(o, "x", 2), val |-> TargetId(o, 1, 2)]>>}

RRMapSets ==
    UNION {{m \in [S -> UNION {RRIdMaps(o) : o \in S}] : \A o \in S : m[o] \in RRIdMaps(o)} :
              S \in SUBSET {"Account", "Case"}}

RRCalls ==
    [fn : {"resolveReferencesWithFieldMap"}, value : RRValues,
     possibleObjects : RRCandidates \cup {<<>>}, idMapBySObject : RRMapSets]

\* The results conn.bulk.load hands to processStep, as far as their type
\* SuccessResult and the null of a failed row allow: the flag either way, the
\* identifier a string, the empty string or null.
PartResults ==
    [success : BOOLEAN, id : {NewId(1, 1), Empty, Null},
     errors : {<<>>, <<"REQUIRED_FIELD_MISSING">>}]

PartCalls ==
    [fn : {"partition"}, results : UNION {[1..n -> PartResults] : n \in 1..MaxRows},
     saveRefs : BOOLEAN]

PureInit ==
    /\ pcall \in PVCalls \cup RRCalls \cup PartCalls
    /\ pret = NoRet
    /\ GenIdle
    /\ RunIdle
    /\ mpc = "idle"
    /\ orgs = [org \in {"source", "target"} |-> PlainOrg]
    /\ mplan = <<>>
    /\ entryAt = 1
    /\ describeCache = <<>>
    /\ idMapBySObject = <<>>
    /\ mwork = <<>>
    /\ mlog = <<>>
    /\ mstatus = <<>>
    /\ submitted = <<>>

\* run.ts:155-184 applied to the drawn arguments.
CallProcessValue ==
    /\ pcall.fn = "processValue"
    /\ pret = NoRet
    /\ LET r == processValue(pcall.value, pcall.counter, pcall.isDryRun,
                             pcall.referenceMap, pcall.rnd)
       IN pret' = [fn |-> "processValue", value |-> r.value, warns |-> r.warns]
    /\ UNCHANGED <<gvars, rvars, mvars, pcall>>

\* part_001:193-230 applied to the record {Name, WhatId} whose WhatId holds
\* the drawn value, with the drawn candidates for WhatId.
CallResolveReferences ==
    /\ pcall.fn = "resolveReferencesWithFieldMap"
    /\ pret = NoRet
    /\ LET record == <<[name |-> "Name", value |-> PlainLit],
                       [name |-> "WhatId", value |-> pcall.value]>>
           fieldMap == IF pcall.possibleObjects = <<>> THEN <<>>
                       ELSE [f \in {"WhatId"} |-> pcall.possibleObjects]
           r == resolveReferencesWithFieldMap(record, fieldMap, pcall.idMapBySObject,
                                              describeCache)
       IN pret' = [fn |-> "resolveReferencesWithFieldMap", record |-> r.record,
                   cache |-> r.cache]
    /\ UNCHANGED <<gvars, rvars, mvars, pcall>>

\* run.ts:134-139 applied to the drawn results, with an empty table before.
CallPartition ==
    /\ pcall.fn = "partition"
    /\ pret = NoRet
    /\ pret' = [fn |-> "partition",
                successes |-> Successes(pcall.results),
                failures |-> Failures(pcall.results),
                referenceMap |-> IF pcall.saveRefs
                                 THEN MapSet(<<>>, "A", Successes(pcall.results))
                                 ELSE <<>>]
    /\ UNCHANGED <<gvars, rvars, mvars, pcall>>

PureNext == CallProcessValue \/ CallResolveReferences \/ CallPartition

SpecPure == PureInit /\ [][PureNext]_vars

\* ------------------------------------------------ properties: migrate
\* C11: an exception raised while an entry is processed aborts only that
\* entry: the run is not ended by it and the loop goes on to the entries
\* after it.
C11_ExceptionAbortsOnlyEntry ==
    \A p \in 1..Len(mplan) :
        mstatus[p] = "threw" => (mpc # "aborted" /\ entryAt > p)

\* The object type a reference value resolves to among the candidates of its
\* field: the only candidate, or the candidate whose key prefix the first
\* three characters of the value are ("undefined" when there is none).
ResolvedTarget(value, possibleObjects) ==
    IF Len(possibleObjects) = 1 THEN possibleObjects[1]
    ELSE IF \E i \in 1..Len(possibleObjects) :
                KeyPrefix(possibleObjects[i]) = Substring3(value.s)
    THEN possibleObjects[CHOOSE i \in 1..Len(possibleObjects) :
            /\ KeyPrefix(possibleObjects[i]) = Substring3(value.s)
            /\ \A j \in 1..(i - 1) : KeyPrefix(possibleObjects[j]) # Substring3(value.s)]
    ELSE "undefined"

\* The value is a key of the mapping of object type o, with a new identifier.
HasNewId(idMaps, o, value) ==
    /\ o \in DOMAIN idMaps
    /\ IdMapHas(idMaps[o], value)
    /\ IdMapGet(idMaps[o], value) # Empty

\* The call of resolveReferencesWithFieldMap has returned.
Resolved1 == pret.fn = "resolveReferencesWithFieldMap"

\* C12: a reference field whose value is a key, with a new identifier, of the
\* mapping of the resolved target type is rewritten to that identifier,
\* whatever the characters of the value; every other field keeps its value.
C12_ReferenceRewritten ==
    Resolved1 =>
        /\ RecGet(pret.record, "Name") = PlainLit
        /\ RecGet(pret.record, "WhatId") =
              IF /\ pcall.possibleObjects # <<>>
                 /\ pcall.value.t = "string"
                 /\ HasNewId(pcall.idMapBySObject,
                             ResolvedTarget(pcall.value, pcall.possibleObjects), pcall.value)
              THEN IdMapGet(pcall.idMapBySObject[ResolvedTarget(pcall.value,
                                                                pcall.possibleObjects)],
                            pcall.value)
              ELSE pcall.value

\* The insert of the entry before entryAt has just returned.
JustInserted == mpc = "loop" /\ mwork # <<>>

\* C13: after an entry's insert returns, the entry's mapping maps the source
\* identifier of the i-th queried record to the identifier of result i when
\* result i is a success; a failed result is logged with its errors and
\* leaves its record without a new identifier.
C13_OldToNewCorrespondence ==
    JustInserted =>
        LET o == mplan[entryAt - 1].sobject
            res == mwork.insertResults
        IN \A i \in 1..Len(res) :
              IF res[i].success
              THEN /\ IdMapHas(idMapBySObject[o], mwork.rowIds[i])
                   /\ IdMapGet(idMapBySObject[o], mwork.rowIds[i]) = res[i].id
              ELSE /\ ~HasNewId(idMapBySObject, o, mwork.rowIds[i])
                   /\ \E j \in 1..Len(mlog) :
                         /\ mlog[j][1] = "[!] Failed to insert "
                         /\ mlog[j][Len(mlog[j])] = res[i].errors

\* C14: for a reference field with two candidate types and a value whose first
\* three characters are the key prefix of exactly one of them, the value is
\* looked up in the mapping of that candidate: the field is rewritten to the
\* new identifier recorded there for it, and kept when none is recorded.
C14_PrefixSelectsCandidate ==
    (/\ Resolved1
     /\ Len(pcall.possibleObjects) = 2
     /\ pcall.value.t = "string"
     /\ Cardinality({i \in 1..2 : KeyPrefix(pcall.possibleObjects[i]) =
                                     Substring3(pcall.value.s)}) = 1) =>
        LET B == pcall.possibleObjects[CHOOSE i \in 1..2 :
                    KeyPrefix(pcall.possibleObjects[i]) = Substring3(pcall.value.s)]
        IN RecGet(pret.record, "WhatId") =
              IF HasNewId(pcall.idMapBySObject, B, pcall.value)
              THEN IdMapGet(pcall.idMapBySObject[B], pcall.value)
              ELSE pcall.value

\* Supporting fact for C12 and C14: both hold for the values whose first
\* character is '0'.
RewrittenWhenLeadingZero ==
    (Resolved1 /\ StartsWith(pcall.value.s, "0")) =>
        (C12_ReferenceRewritten /\ C14_PrefixSelectsCandidate)

\* The query of the entry at entryAt has been sanitized (part_001:79).
Sanitized == mpc = "query"

\* The declared fields of the entry at entryAt that the target schema lets
\* write: updateable and not calculated.
TargetWritable(f) ==
    LET target == OrgDescribe("target", mplan[entryAt].sobject)
    IN \E i \in 1..Len(target.fields) :
          /\ target.fields[i].name = f
          /\ target.fields[i].updateable
          /\ ~target.fields[i].calculated

TargetReason(f) ==
    LET info == FindField(OrgDescribe("target", mplan[entryAt].sobject), f)
    IN IF info # Undefined /\ info.calculated THEN "Formula field"
       ELSE IF info # Undefined /\ info.custom THEN "Custom non-editable"
       ELSE "Standard non-editable"

\* C15: the cleaned query selects exactly the declared fields, in declared
\* order, that are updateable and not calculated in the target schema, and
\* each dropped field is logged once with its reason.
C15_QuerySanitized ==
    Sanitized =>
        LET declared == DeclaredFields(mplan[entryAt].sobject)
            kept == SelectSeq(declared, TargetWritable)
            dropped == SelectSeq(declared, LAMBDA f : ~TargetWritable(f))
        IN /\ mwork.keptFields = kept
           /\ mwork.cleanedQuery = Soql(kept, mplan[entryAt].sobject, <<>>)
           /\ Len(mlog) = Len(dropped)
           /\ \A i \in 1..Len(dropped) :
                 mlog[i] = <<"[!] Skipped field \"", dropped[i], "\" on \"",
                             mplan[entryAt].sobject, "\" - ", TargetReason(dropped[i])>>

\* Supporting fact for C15: it holds whenever the cached description of the
\* entry's object type was fetched from the target org.
SanitizedWhenCachedFromTarget ==
    (Sanitized /\ describeCache[mplan[entryAt].sobject].org = "target") =>
        C15_QuerySanitized

\* C16: a synthetic-data expression naming an undefined member is reported
\* with a warning and the field resolves to null.
C16_UnresolvedFakerGivesNull ==
    (/\ pret.fn = "processValue"
     /\ pcall.value \in {FakerExpr(<<"person", "nope">>), FakerExpr(<<"nope", "lastName">>)}) =>
        /\ pret.warns # <<>>
        /\ pret.value = Null

\* C17: an entry that declares no query is processed, with the default query,
\* and is not rejected.
C17_DefaultQueryWhenAbsent ==
    \A p \in 1..Len(mplan) : ~Truthy(mplan[p].query) => mstatus[p] # "threw"

\* C18: an entry declaring operation Upsert is never submitted to the target
\* as a plain insert, and an Upsert entry without externalId is not executed.
C18_UpsertNotInserted ==
    /\ \A k \in 1..Len(submitted) :
          mplan[submitted[k].entry].operation = Str(<<"Upsert">>) =>
              submitted[k].method # "insert"
    /\ \A p \in 1..Len(mplan) :
          (mplan[p].operation = Str(<<"Upsert">>) /\ mplan[p].externalId = Undefined) =>
              mstatus[p] # "inserted"

\* ------------------------------------------------ properties: higher-order cycles
\* The pairs from -> to of the reference edges of the plan the graphs were
\* built from.
DepPairs == {<<e[1], e[3]>> : e \in PlanEdges(builtPlan)}

\* A dependency cycle through three or more distinct object types.
HasLongCycle ==
    \E n \in 3..Cardinality(Objects) :
       \E c \in [1..n -> Objects] :
          /\ \A i, j \in 1..n : i # j => c[i] # c[j]
          /\ \A i \in 1..n : <<c[i], c[IF i = n THEN 1 ELSE i + 1]>> \in DepPairs

\* Two object types referring to each other (or one referring to itself).
HasDirectPair == \E a, b \in Objects : <<a, b>> \in DepPairs /\ <<b, a>> \in DepPairs

GraphsBuilt == builtPlan # <<>>

\* First half of C20: a cycle through three or more types with no direct pair
\* is never prompted for, and the sequencer ends in the fault.
LongCycleFaults ==
    (GraphsBuilt /\ HasLongCycle /\ ~HasDirectPair) =>
        /\ gpc \notin {"prompt", "done"}
        /\ selectedRemovals = <<>>
        /\ Ended => (gpc = "fault" /\ sortedPlan = <<>>)

\* Second half of C20: without a cycle through three or more types the fault
\* is never raised.
FaultOnlyOnLongCycle == (GraphsBuilt /\ ~HasLongCycle) => gpc # "fault"

\* C20: a cycle through three or more object types with no direct two-way
\* pair produces no prompt and ends in the cyclic-dependency fault, and on
\* every graph without such a cycle the fault is never raised.
C20_FaultExactlyOnLongCycle == LongCycleFaults /\ FaultOnlyOnLongCycle

LongCycleReached == gpc = "fault" /\ HasLongCycle /\ ~HasDirectPair

\* ------------------------------------------------ properties: processValue
ProcessValueReturned == pret.fn = "processValue"

\* The string with every counter token replaced by recordIndex + 1.
Substituted == [i \in 1..Len(pcall.value.s) |->
                   IF pcall.value.s[i] = "#{counter}" THEN ToString(pcall.counter + 1)
                   ELSE pcall.value.s[i]]

\* The whole substituted string has the syntax of a reference token.
WholeToken == Substituted # <<>> /\ Head(Substituted) = "@{"
              /\ Substituted[Len(Substituted)] = "}"

\* The identifiers retained for the object type the token names.
RetainedFor(key) ==
    IF key \in DOMAIN pcall.referenceMap
    THEN {pcall.referenceMap[key][i].id : i \in 1..Len(pcall.referenceMap[key])}
    ELSE {}

\* C21: a non-string value is returned unchanged; a resolvable synthetic-data
\* expression is returned at once; otherwise every counter token is replaced
\* by recordIndex + 1, the table is consulted only when the whole substituted
\* string is a reference token, and in every other case the substituted
\* string is returned.
C21_ExpansionOrder ==
    ProcessValueReturned =>
        IF pcall.value.t # "string" THEN pret.value = pcall.value
        ELSE IF resolveFakerExpression(pcall.value).value # Null
        THEN pret.value = resolveFakerExpression(pcall.value).value
        ELSE IF ~WholeToken \/ pcall.isDryRun
        THEN pret.value = Str(Substituted)
        ELSE IF RetainedFor(Substituted[2]) # {}
        THEN pret.value \in RetainedFor(Substituted[2])
        ELSE pret.value = Null

\* C21 witness: a string that starts with a reference token and goes on with a
\* counter token is returned substituted, with the table holding identifiers
\* for the object type it names.
C21_Witness ==
    /\ ProcessValueReturned
    /\ pcall.value = Str(<<"@{", "A", ".", "Id", "}", "#{counter}">>)
    /\ ~pcall.isDryRun
    /\ RetainedFor("A") # {}
    /\ pcall.counter = 1
    /\ pret.value = Str(<<"@{", "A", ".", "Id", "}", "2">>)

\* ------------------------------------------------ properties: result partition
Partitioned == pret.fn = "partition"

\* Every result is in exactly one of successes and failures, the successes
\* are the results in accepted, and the table holds successes only.
PartitionBy(accepted) ==
    Partitioned =>
        /\ \A i \in 1..Len(pcall.results) :
              LET r == pcall.results[i]
              IN /\ (r \in Range(pret.successes)) # (r \in Range(pret.failures))
                 /\ (r \in Range(pret.successes)) <=> (r \in accepted)
        /\ Len(pret.successes) + Len(pret.failures) = Len(pcall.results)
        /\ \A k \in DOMAIN pret.referenceMap :
              Range(pret.referenceMap[k]) \subseteq Range(pret.successes)

\* C22 as stated: a result is a success exactly when its flag is true and its
\* identifier is non-empty.
C22_PartitionByNonEmptyId ==
    PartitionBy({r \in PartResults : r.success /\ r.id.t = "string" /\ r.id.s # <<>>})

\* C22 amended: a result is a success exactly when its flag is true and its
\* identifier is a string, the empty string included.
C22_PartitionByStringId ==
    PartitionBy({r \in PartResults : r.success /\ r.id.t = "string"})

\* C22 witness: a result with the flag set and an empty identifier came back
\* next to a failure, and it entered the table.
C22_Witness ==
    /\ Partitioned
    /\ \E i \in 1..Len(pcall.results) :
          /\ pcall.results[i].success
          /\ pcall.results[i].id = Empty
          /\ "A" \in DOMAIN pret.referenceMap
          /\ pcall.results[i] \in Range(pret.referenceMap["A"])
    /\ pret.failures # <<>>

\* ------------------------------------------------ properties: reference map
\* The reference-typed fields among the kept fields, with their candidate
\* types, as the description of the entry's object type in an org gives them.
ReferenceFieldsIn(org) ==
    LET d == OrgDescribe(org, mplan[entryAt].sobject)
        refs == {f \in Range(mwork.keptFields) :
                    FindField(d, f) # Undefined /\ FindField(d, f).type = "reference"}
    IN [f \in refs |-> FindField(d, f).referenceTo]

\* C23: the reference fields of an entry and their candidate types are those
\* of the source org's description of the entry's object type, also when the
\* target's description of that type was fetched earlier.
C23_ReferenceMapFromSource ==
    Sanitized => mwork.referenceFieldMap = ReferenceFieldsIn("source")

\* Supporting fact for C23: the reference map is read from the description
\* the cache holds, whichever org it was fetched from.
ReferenceMapFromCachedOrg ==
    Sanitized =>
        mwork.referenceFieldMap =
            ReferenceFieldsIn(describeCache[mplan[entryAt].sobject].org)

\* ------------------------------------------------ properties: cycle breaking
\* The selections the removal loop has applied so far.
RemovedChoices == {ParseChoice(selectedRemovals[k]) : k \in 1..(removeAt - 1)}

\* The dependents of `to` in a dependent map.
DependentsOf(dependents, to) == IF to \in DOMAIN dependents THEN dependents[to] ELSE {}

\* C24: after the removal loop each selected field is absent from its step
\* and from the dependency map, and every other field of every step, every
\* step's count and object type, and every other edge of the dependency and
\* dependent maps are as they were built.
C24_OnlySelectedEdgeChanged ==
    (GraphsBuilt /\ OrderPlanEnabled) =>
        LET removed == RemovedChoices
            graph == GraphEdges(BuildDepGraph(builtPlan))
            dependents == BuildDependents(builtPlan)
        IN /\ Len(originalPlan) = Len(builtPlan)
           /\ \A i \in 1..Len(builtPlan) :
                 /\ originalPlan[i].sobject = builtPlan[i].sobject
                 /\ originalPlan[i].count = builtPlan[i].count
                 /\ originalPlan[i].fields =
                       SelectSeq(builtPlan[i].fields,
                                 LAMBDA f : \A c \in removed :
                                     ~(c.from = builtPlan[i].sobject /\ c.field = f.name))
           /\ GraphEdges(sObjectDepGraph) =
                 {e \in graph : \A c \in removed : ~(c.from = e[1] /\ c.field = e[2])}
           /\ \A to \in Objects, from \in Objects :
                 from \in DependentsOf(depSobjectGraph, to) <=>
                    /\ from \in DependentsOf(dependents, to)
                    /\ \A c \in removed : ~(c.from = from /\ c.to = to)

\* C24 witness: a field was removed from a step that has a second field with
\* the same target, which is still there.
C24_Witness ==
    /\ GraphsBuilt /\ OrderPlanEnabled
    /\ \E c \in RemovedChoices :
          /\ \E e \in GraphEdges(sObjectDepGraph) :
                e[1] = c.from /\ e[3] = c.to /\ e[2] # c.field
          /\ \A e \in GraphEdges(sObjectDepGraph) : ~(e[1] = c.from /\ e[2] = c.field)

\* The two graph maps agree: a is a dependent of b exactly when the
\* dependency map of a holds a field whose target is b.
MapsConsistent ==
    \A a \in Objects, b \in Objects :
        a \in DependentsOf(depSobjectGraph, b) <=>
           \E e \in GraphEdges(sObjectDepGraph) : e[1] = a /\ e[3] = b

\* C25: the dependency map and the dependent map stay consistent with each
\* other, before and after every cycle-breaking removal.
C25_GraphMapsConsistent == GraphsBuilt => MapsConsistent

\* Supporting fact for C25: the maps are consistent as built, before the
\* first removal.
ConsistentAsBuilt == (GraphsBuilt /\ removeAt = 1) => MapsConsistent

\* ------------------------------------------------ properties: cleaned query
\* What follows `FROM <object>` in a query.
AfterFrom(soql) ==
    LET at == CHOOSE i \in 1..Len(soql) :
                  soql[i] = "FROM" /\ \A j \in 1..(i - 1) : soql[j] # "FROM"
    IN SubSeq(soql, at + 2, Len(soql))

\* C26: every clause that follows `FROM <object>` in the declared query is
\* present in the cleaned query: only the field list differs.
C26_SelectionKept ==
    Sanitized => AfterFrom(mwork.cleanedQuery) = AfterFrom(mplan[entryAt].query.s)

\* Supporting fact for C26: the cleaned query always ends at the object name.
CleanedQueryEndsAtObject == Sanitized => AfterFrom(mwork.cleanedQuery) = <<>>

\* ------------------------------------------------------ seeder:plan:validate
\* faker.ts:44-66: every segment names a member and the last one is a
\* function (the library of the model has no string or number members).
isValidFakerExpression(value) ==
    IF ~(StartsWith(value.s, "#{faker.") /\ EndsWith(value.s, "}")) THEN FALSE
    ELSE LET parts == SplitDots(Slice2(value.s))
         IN /\ \A i \in 1..(Len(parts) - 1) : FakerKind(SubSeq(parts, 1, i)) = "module"
            /\ FakerKind(parts) \in {"function", "throws"}

\* value.slice(2, -1).split('.')[1] of validator.ts:113, "" when undefined.
SplitDotSecond(m) ==
    LET parts == SplitDots(m) IN IF Len(parts) >= 2 /\ m[1] # "." THEN parts[2] ELSE ""

\* validator.ts:86-142: TRUE when no check reported an error.  saved is the
\* function's own referenceMap, the types of the steps flagged saveRefs.
validatePlanStructure(plan) ==
    LET saved == {plan[i].sobject : i \in {j \in 1..Len(plan) : plan[j].saveRefs}}
    IN \A index \in 1..Len(plan) :
          LET step == plan[index]
          IN /\ step.sobject # ""
             /\ step.count # 0
             /\ \A k \in 1..Len(step.fields) :
                   LET value == step.fields[k].value
                   IN /\ IsRefToken(value) =>
                            /\ RefObjOf(value) # ""
                            /\ SplitDotSecond(Slice2(value.s)) # ""
                            /\ RefObjOf(value) \in saved
                      /\ (value.t = "string" /\ StartsWith(value.s, "#{faker.")
                          /\ EndsWith(value.s, "}")) => isValidFakerExpression(value)

\* ------------------------------------------------ properties: validated plans
Accepted == rpc # "idle" /\ validatePlanStructure(planList)

\* Every load that returned so far reported a success.
InsertsSucceeded ==
    \A p \in 1..Len(planList) : status[p].state = "returned" => status[p].ok

\* For each reference token of the plan a step for the referenced type with
\* saveRefs true comes before the referencing step.
SavedStepPrecedes ==
    \A q \in 1..Len(planList) : \A k \in 1..Len(planList[q].fields) :
        IsRefField(planList[q], k) =>
            \E p \in 1..(q - 1) : /\ planList[p].sobject = RefKeyOf(planList[q], k)
                                  /\ planList[p].saveRefs

\* C27: in an accepted plan a saveRefs step for the referenced type precedes
\* every reference token, and while every insert succeeds no reference of the
\* built records is null.
C27_AcceptedPlanResolves ==
    Accepted =>
        /\ SavedStepPrecedes
        /\ (Built /\ ~isDryRun /\ InsertsSucceeded) =>
              \A i \in 1..Len(records) : \A k \in 1..Len(records[i]) :
                  IsRefField(BuiltStep, k) => records[i][k].value # Null

\* Supporting fact for C27: an accepted plan holds a saveRefs step for every
\* referenced type somewhere, before or after the referencing step.
AcceptedHasSavedStep ==
    Accepted =>
        \A q \in 1..Len(planList) : \A k \in 1..Len(planList[q].fields) :
            IsRefField(planList[q], k) =>
                \E p \in 1..Len(planList) : /\ planList[p].sobject = RefKeyOf(planList[q], k)
                                            /\ planList[p].saveRefs

\* ------------------------------------------------ properties: identifier maps
\* The correspondences recorded so far: object type, old and new identifier.
Recorded ==
    UNION {{<<o, idMapBySObject[o][i].key, idMapBySObject[o][i].val>> :
               i \in {j \in 1..Len(idMapBySObject[o]) : Truthy(idMapBySObject[o][j].val)}} :
           o \in DOMAIN idMapBySObject}

\* C28: a correspondence once recorded for an object type stays recorded in
\* every later step of the run, also when a later entry migrates the same
\* type again or fails.
C28_MappingsNeverLost == [][Recorded \subseteq Recorded']_vars

\* Supporting fact for C28: the correspondences of the other object types are
\* kept when an entry's map is stored, and a failing entry changes no map.
OtherTypesKept ==
    [][\A c \in Recorded :
          (entryAt > Len(mplan) \/ c[1] # mplan[entryAt].sobject) => c \in Recorded']_vars

\* The records of the entry in progress are ready for the insert.
Prepared == mpc = "insert"

\* new is the identifier a successful insert into object type o returned,
\* recorded for the source identifier old of that type.
IsNewIdOf(new, old) ==
    \E o \in DOMAIN idMapBySObject :
       /\ \E j \in 1..Len(idMapBySObject[o]) :
             idMapBySObject[o][j].key = old /\ idMapBySObject[o][j].val = new
       /\ new.t = "string"
       /\ Len(new.s) > 3
       /\ Substring3(new.s) = KeyPrefix(o)
       /\ new.s[4] = "y"
       /\ old.t = "string"
       /\ Substring3(old.s) = KeyPrefix(o)

\* C29: every field of every record prepared for the insert holds the value
\* read from the source, or the identifier a successful insert into the
\* resolved target type returned for it; it is never the empty placeholder
\* of a failed or missing record.
C29_NeverPlaceholder ==
    Prepared =>
        \A i \in 1..Len(mwork.queried) :
            LET read == DeleteId(mwork.queried[i])
                sent == mwork.sourceToInsert[i]
            IN /\ Len(sent) = Len(read)
               /\ \A k \in 1..Len(read) :
                     /\ sent[k].name = read[k].name
                     /\ \/ sent[k].value = read[k].value
                        \/ IsNewIdOf(sent[k].value, read[k].value)

\* C29 witness: the record a reference points to failed to insert, its entry
\* still holds the placeholder, and the reference keeps the source identifier.
C29_Witness ==
    /\ Prepared
    /\ \E i \in 1..Len(mwork.queried) : \E k \in 1..Len(mwork.sourceToInsert[i]) :
          /\ \E o \in DOMAIN idMapBySObject : \E j \in 1..Len(idMapBySObject[o]) :
                /\ idMapBySObject[o][j].key = mwork.sourceToInsert[i][k].value
                /\ idMapBySObject[o][j].val = Empty
          /\ mwork.sourceToInsert[i][k].value = DeleteId(mwork.queried[i])[k].value

\* A reference was rewritten to a new identifier.
ReferenceRewritten ==
    /\ Prepared
    /\ \E i \in 1..Len(mwork.queried) : \E k \in 1..Len(mwork.sourceToInsert[i]) :
          mwork.sourceToInsert[i][k].value # DeleteId(mwork.queried[i])[k].value

\* ------------------------------------------------ properties: termination
NoDuplicates(q) == \A i, j \in 1..Len(q) : i # j => q[i] # q[j]

\* The traversal of the dependency map as it stands pushes no object type
\* twice, and a returned plan holds no step twice.
VisitedOnce ==
    /\ (GraphsBuilt /\ gpc \in {"remove", "done"}) =>
          NoDuplicates(SortSObjects(sObjectDepGraph).sorted)
    /\ Returned => /\ NoDuplicates(sortedPlan)
                   /\ NoDuplicates([i \in 1..Len(sortedPlan) |-> sortedPlan[i].sobject])

\* C30: once the cycle prompts are answered the ordering phase ends, with an
\* ordered plan in which no step occurs twice or with the cyclic-dependency
\* fault, and the traversal visits no object type twice.
C30_OrderingTerminates ==
    /\ []VisitedOnce
    /\ (gpc = "remove") ~> (gpc = "done" \/ gpc = "fault")

\* C30 witness: a plan was returned in which one object type is a dependency
\* of two others, reached twice by the traversal and pushed once.
C30_Witness ==
    /\ Returned
    /\ Len(sortedPlan) >= 3
    /\ \E b \in Objects : \E a1, a2 \in Objects \ {b} :
          /\ a1 # a2
          /\ \E e \in GraphEdges(sObjectDepGraph) : e[1] = a1 /\ e[3] = b
          /\ \E e \in GraphEdges(sObjectDepGraph) : e[1] = a2 /\ e[3] = b

====
